---- MODULE Spec2Model ----
(***************************************************************************)
(* A model of the chains crate: the Chain / ChainKind identity type of     *)
(* src/chain.rs and the NamedChain enumeration of src/named.rs, with the   *)
(* conversions between numbers, names and text, the metadata functions and *)
(* the serde implementations of NamedChain, and the ChainRegistry of       *)
(* src/registry.rs.                                                        *)
(*                                                                         *)
(* Text is a sequence of one-character strings.  A u64 is a tuple of four  *)
(* 16-bit limbs, most significant first, so that every chain ID of the     *)
(* enumeration and the overflow of decimal parsing are represented         *)
(* exactly.                                                                *)
(***************************************************************************)
EXTENDS Integers, Sequences, FiniteSets, TLC

VARIABLES pc, op, arg, chain, parsed, other, returned, registry

vars == <<pc, op, arg, chain, parsed, other, returned, registry>>

----------------------------------------------------------------------------
(* Option and Result values *)

None == <<"None">>
Some(x) == <<"Some", x>>
Ok(x) == <<"Ok", x>>
Err(e) == <<"Err", e>>
is_ok(r) == r[1] = "Ok"
is_err(r) == r[1] = "Err"
is_some(o) == o[1] = "Some"
unwrap(r) == r[2]

----------------------------------------------------------------------------
(* Characters *)

UpperChars == <<"A", "B", "C", "D", "E", "F", "G", "H", "I", "J", "K", "L", "M",
                "N", "O", "P", "Q", "R", "S", "T", "U", "V", "W", "X", "Y", "Z">>
LowerChars == <<"a", "b", "c", "d", "e", "f", "g", "h", "i", "j", "k", "l", "m",
                "n", "o", "p", "q", "r", "s", "t", "u", "v", "w", "x", "y", "z">>
DigitChars == <<"0", "1", "2", "3", "4", "5", "6", "7", "8", "9">>

Range(s) == {s[i] : i \in DOMAIN s}
IndexOf(s, c) == CHOOSE i \in DOMAIN s : s[i] = c

UpperSet == Range(UpperChars)
LowerSet == Range(LowerChars)
DigitSet == Range(DigitChars)

is_uppercase(c) == c \in UpperSet
is_lowercase(c) == c \in LowerSet
to_lowercase_char(c) == IF is_uppercase(c) THEN LowerChars[IndexOf(UpperChars, c)] ELSE c
to_lowercase(s) == [i \in DOMAIN s |-> to_lowercase_char(s[i])]

\* char::to_digit(10): the value of a decimal digit, None for any other character.
to_digit(c) == IF c \in DigitSet THEN Some(IndexOf(DigitChars, c) - 1) ELSE None

----------------------------------------------------------------------------
(* u64 arithmetic on limbs *)

\* A number below 2^31 as a u64.
U(n) == <<0, 0, n \div 65536, n % 65536>>

\* x * m for a small factor m, with the carry out of the top limb.
MulLimbs(x, m) ==
  LET p4 == x[4] * m
      p3 == x[3] * m + (p4 \div 65536)
      p2 == x[2] * m + (p3 \div 65536)
      p1 == x[1] * m + (p2 \div 65536)
  IN  [carry |-> p1 \div 65536,
       val   |-> <<p1 % 65536, p2 % 65536, p3 % 65536, p4 % 65536>>]

\* x + y, with the carry out of the top limb.
AddLimbs(x, y) ==
  LET s4 == x[4] + y[4]
      s3 == x[3] + y[3] + (s4 \div 65536)
      s2 == x[2] + y[2] + (s3 \div 65536)
      s1 == x[1] + y[1] + (s2 \div 65536)
  IN  [carry |-> s1 \div 65536,
       val   |-> <<s1 % 65536, s2 % 65536, s3 % 65536, s4 % 65536>>]

\* Mutant of checked_mul: the product wraps around.
wrapping_mul(x, m) == Some(MulLimbs(x, m).val)

\* u64::checked_mul and u64::checked_add: None on overflow.
checked_mul(x, m) ==
  LET r == MulLimbs(x, m) IN IF r.carry = 0 THEN Some(r.val) ELSE None
checked_add(x, y) ==
  LET r == AddLimbs(x, y) IN IF r.carry = 0 THEN Some(r.val) ELSE None

\* The literal billions * 10^9 + rest, for literals of 2^31 and more.
UBig(billions, rest) ==
  AddLimbs(MulLimbs(MulLimbs(MulLimbs(U(billions), 1000).val, 1000).val, 1000).val,
           U(rest)).val

u64_MAX == <<65535, 65535, 65535, 65535>>

\* x divided by ten: quotient and remainder.
DivMod10(x) ==
  LET r1 == x[1]
      r2 == (r1 % 10) * 65536 + x[2]
      r3 == (r2 % 10) * 65536 + x[3]
      r4 == (r3 % 10) * 65536 + x[4]
  IN  [quot |-> <<r1 \div 10, r2 \div 10, r3 \div 10, r4 \div 10>>, rem |-> r4 % 10]

\* Mutant of u64_digits: the digits come least significant first.
RECURSIVE u64_digits_least_first(_)
u64_digits_least_first(x) ==
  IF x = U(0) THEN <<>>
  ELSE LET d == DivMod10(x) IN <<DigitChars[d.rem + 1]>> \o u64_digits_least_first(d.quot)

\* impl Display for u64: the decimal digits, most significant first, "0" for zero.
RECURSIVE u64_digits(_)
u64_digits(x) ==
  IF x = U(0) THEN <<>>
  ELSE LET d == DivMod10(x) IN Append(u64_digits(d.quot), DigitChars[d.rem + 1])

u64_fmt(x) == IF x = U(0) THEN <<"0">> ELSE u64_digits(x)

\* The digit loop of u64::from_str: each character must be a decimal digit
\* (InvalidDigit), and result * 10 + digit must fit (PosOverflow).
RECURSIVE u64_from_digits(_, _, _)
u64_from_digits(digits, i, result) ==
  IF i > Len(digits) THEN Ok(result)
  ELSE LET mul == checked_mul(result, 10)
           x   == to_digit(digits[i])
       IN  IF ~is_some(x) THEN Err("InvalidDigit")
           ELSE IF ~is_some(mul) THEN Err("PosOverflow")
           ELSE LET sum == checked_add(unwrap(mul), U(unwrap(x)))
                IN  IF ~is_some(sum) THEN Err("PosOverflow")
                    ELSE u64_from_digits(digits, i + 1, unwrap(sum))

\* str::parse::<u64>: empty text is Empty; a lone sign is InvalidDigit; one
\* leading "+" is skipped; "-" is not a sign of an unsigned type.
u64_from_str(src) ==
  IF Len(src) = 0 THEN Err("Empty")
  ELSE IF src[1] \in {"+", "-"} /\ Len(src) = 1 THEN Err("InvalidDigit")
  ELSE IF src[1] = "+" THEN u64_from_digits(Tail(src), 1, U(0))
  ELSE u64_from_digits(src, 1, U(0))

----------------------------------------------------------------------------
(* The NamedChain enumeration *)

\* The variants of NamedChain in declaration order (strum::VariantArray, strum::EnumIter).
VARIANTS ==
  << "Mainnet", "Morden", "Ropsten", "Rinkeby", "Goerli", "Kovan", "Holesky", "Hoodi",
     "Sepolia", "Odyssey", "Optimism", "OptimismKovan", "OptimismGoerli", "OptimismSepolia",
     "Bob", "BobSepolia", "Arbitrum", "ArbitrumTestnet", "ArbitrumGoerli", "ArbitrumSepolia",
     "ArbitrumNova", "Cronos", "CronosTestnet", "Rsk", "RskTestnet", "TelosEvm",
     "TelosEvmTestnet", "Crab", "Darwinia", "Koi", "BinanceSmartChain",
     "BinanceSmartChainTestnet", "Poa", "Sokol", "Scroll", "ScrollSepolia", "Metis",
     "CfxTestnet", "Cfx", "Gnosis", "Polygon", "PolygonAmoy", "Fantom", "FantomTestnet",
     "Moonbeam", "MoonbeamDev", "Moonriver", "Moonbase", "Dev", "AnvilHardhat",
     "GravityAlphaMainnet", "GravityAlphaTestnetSepolia", "Evmos", "EvmosTestnet", "Plasma",
     "Chiado", "Oasis", "Emerald", "EmeraldTestnet", "FilecoinMainnet",
     "FilecoinCalibrationTestnet", "Avalanche", "AvalancheFuji", "Celo", "CeloSepolia",
     "Aurora", "AuroraTestnet", "Canto", "CantoTestnet", "Boba", "Base", "BaseGoerli",
     "BaseSepolia", "Syndr", "SyndrSepolia", "Shimmer", "Ink", "InkSepolia", "Fraxtal",
     "FraxtalTestnet", "Blast", "BlastSepolia", "Linea", "LineaGoerli", "LineaSepolia",
     "ZkSync", "ZkSyncTestnet", "Mantle", "MantleSepolia", "Xai", "XaiSepolia",
     "HappychainTestnet", "Viction", "Zora", "ZoraSepolia", "Pgn", "PgnSepolia", "Mode",
     "ModeSepolia", "Elastos", "Etherlink", "EtherlinkTestnet", "Degen", "OpBNBMainnet",
     "OpBNBTestnet", "Ronin", "RoninTestnet", "Taiko", "TaikoHekla", "AutonomysNovaTestnet",
     "Flare", "FlareCoston2", "Acala", "AcalaMandalaTestnet", "AcalaTestnet", "Karura",
     "KaruraTestnet", "Pulsechain", "PulsechainTestnet", "Cannon", "Immutable",
     "ImmutableTestnet", "Soneium", "SoneiumMinatoTestnet", "World", "WorldSepolia", "Iotex",
     "Core", "Merlin", "Bitlayer", "Vana", "Zeta", "Kaia", "Story", "Sei", "SeiTestnet",
     "StableMainnet", "StableTestnet", "Unichain", "UnichainSepolia", "SignetPecorino",
     "ApeChain", "Curtis", "Sonic", "SonicTestnet", "Treasure", "TreasureTopaz",
     "BerachainBepolia", "Berachain", "SuperpositionTestnet", "Superposition", "Monad",
     "MonadTestnet", "Hyperliquid", "Abstract", "AbstractTestnet", "Corn", "CornTestnet",
     "Sophon", "SophonTestnet", "PolkadotTestnet", "Lens", "LensTestnet", "Injective",
     "InjectiveTestnet", "Katana", "Lisk", "Fuse", "FluentDevnet", "FluentTestnet",
     "SkaleBase", "SkaleBaseTestnet", "MemeCore", "Formicarium", "Insectarium" >>

\* The explicit discriminant of each variant (#[repr(u64)]), as written in the enum.
DiscriminantTable ==
  [ Mainnet |-> U(1), Morden |-> U(2), Ropsten |-> U(3), Rinkeby |-> U(4), Goerli |-> U(5),
    Kovan |-> U(42), Holesky |-> U(17000), Hoodi |-> U(560048), Sepolia |-> U(11155111),
    Odyssey |-> U(911867), Optimism |-> U(10), OptimismKovan |-> U(69),
    OptimismGoerli |-> U(420), OptimismSepolia |-> U(11155420), Bob |-> U(60808),
    BobSepolia |-> U(808813), Arbitrum |-> U(42161), ArbitrumTestnet |-> U(421611),
    ArbitrumGoerli |-> U(421613), ArbitrumSepolia |-> U(421614), ArbitrumNova |-> U(42170),
    Cronos |-> U(25), CronosTestnet |-> U(338), Rsk |-> U(30), RskTestnet |-> U(31),
    TelosEvm |-> U(40), TelosEvmTestnet |-> U(41), Crab |-> U(44), Darwinia |-> U(46),
    Koi |-> U(701), BinanceSmartChain |-> U(56), BinanceSmartChainTestnet |-> U(97),
    Poa |-> U(99), Sokol |-> U(77), Scroll |-> U(534352), ScrollSepolia |-> U(534351),
    Metis |-> U(1088), CfxTestnet |-> U(71), Cfx |-> U(1030), Gnosis |-> U(100),
    Polygon |-> U(137), PolygonAmoy |-> U(80002), Fantom |-> U(250),
    FantomTestnet |-> U(4002), Moonbeam |-> U(1284), MoonbeamDev |-> U(1281),
    Moonriver |-> U(1285), Moonbase |-> U(1287), Dev |-> U(1337), AnvilHardhat |-> U(31337),
    GravityAlphaMainnet |-> U(1625), GravityAlphaTestnetSepolia |-> U(13505),
    Evmos |-> U(9001), EvmosTestnet |-> U(9000), Plasma |-> U(9745), Chiado |-> U(10200),
    Oasis |-> U(26863), Emerald |-> U(42262), EmeraldTestnet |-> U(42261),
    FilecoinMainnet |-> U(314), FilecoinCalibrationTestnet |-> U(314159),
    Avalanche |-> U(43114), AvalancheFuji |-> U(43113), Celo |-> U(42220),
    CeloSepolia |-> U(11142220), Aurora |-> U(1313161554), AuroraTestnet |-> U(1313161555),
    Canto |-> U(7700), CantoTestnet |-> U(740), Boba |-> U(288), Base |-> U(8453),
    BaseGoerli |-> U(84531), BaseSepolia |-> U(84532), Syndr |-> U(404),
    SyndrSepolia |-> U(444444), Shimmer |-> U(148), Ink |-> U(57073),
    InkSepolia |-> U(763373), Fraxtal |-> U(252), FraxtalTestnet |-> U(2522),
    Blast |-> U(81457), BlastSepolia |-> U(168587773), Linea |-> U(59144),
    LineaGoerli |-> U(59140), LineaSepolia |-> U(59141), ZkSync |-> U(324),
    ZkSyncTestnet |-> U(300), Mantle |-> U(5000), MantleSepolia |-> U(5003),
    Xai |-> U(660279), XaiSepolia |-> UBig(37, 714555429), HappychainTestnet |-> U(216),
    Viction |-> U(88), Zora |-> U(7777777), ZoraSepolia |-> U(999999999), Pgn |-> U(424),
    PgnSepolia |-> U(58008), Mode |-> U(34443), ModeSepolia |-> U(919), Elastos |-> U(20),
    Etherlink |-> U(42793), EtherlinkTestnet |-> U(128123), Degen |-> U(666666666),
    OpBNBMainnet |-> U(204), OpBNBTestnet |-> U(5611), Ronin |-> U(2020),
    RoninTestnet |-> U(2021), Taiko |-> U(167000), TaikoHekla |-> U(167009),
    AutonomysNovaTestnet |-> U(490000), Flare |-> U(14), FlareCoston2 |-> U(114),
    Acala |-> U(787), AcalaMandalaTestnet |-> U(595), AcalaTestnet |-> U(597),
    Karura |-> U(686), KaruraTestnet |-> U(596), Pulsechain |-> U(369),
    PulsechainTestnet |-> U(943), Cannon |-> U(13370), Immutable |-> U(13371),
    ImmutableTestnet |-> U(13473), Soneium |-> U(1868), SoneiumMinatoTestnet |-> U(1946),
    World |-> U(480), WorldSepolia |-> U(4801), Iotex |-> U(4689), Core |-> U(1116),
    Merlin |-> U(4200), Bitlayer |-> U(200901), Vana |-> U(1480), Zeta |-> U(7000),
    Kaia |-> U(8217), Story |-> U(1514), Sei |-> U(1329), SeiTestnet |-> U(1328),
    StableMainnet |-> U(988), StableTestnet |-> U(2201), Unichain |-> U(130),
    UnichainSepolia |-> U(1301), SignetPecorino |-> U(14174), ApeChain |-> U(33139),
    Curtis |-> U(33111), Sonic |-> U(146), SonicTestnet |-> U(14601), Treasure |-> U(61166),
    TreasureTopaz |-> U(978658), BerachainBepolia |-> U(80069), Berachain |-> U(80094),
    SuperpositionTestnet |-> U(98985), Superposition |-> U(55244), Monad |-> U(143),
    MonadTestnet |-> U(10143), Hyperliquid |-> U(999), Abstract |-> U(2741),
    AbstractTestnet |-> U(11124), Corn |-> U(21000000), CornTestnet |-> U(21000001),
    Sophon |-> U(50104), SophonTestnet |-> U(531050104), PolkadotTestnet |-> U(420420417),
    Lens |-> U(232), LensTestnet |-> U(37111), Injective |-> U(1776),
    InjectiveTestnet |-> U(1439), Katana |-> U(747474), Lisk |-> U(1135), Fuse |-> U(122),
    FluentDevnet |-> U(20993), FluentTestnet |-> U(20994), SkaleBase |-> U(1562508942),
    SkaleBaseTestnet |-> U(324705682), MemeCore |-> U(4352), Formicarium |-> U(43521),
    Insectarium |-> U(43522) ]

\* The identifier of each variant, character by character: the input of the
\* serialize_all = "kebab-case" conversion.
VariantIdent ==
  [ Mainnet |-> <<"M", "a", "i", "n", "n", "e", "t">>,
    Morden |-> <<"M", "o", "r", "d", "e", "n">>,
    Ropsten |-> <<"R", "o", "p", "s", "t", "e", "n">>,
    Rinkeby |-> <<"R", "i", "n", "k", "e", "b", "y">>,
    Goerli |-> <<"G", "o", "e", "r", "l", "i">>,
    Kovan |-> <<"K", "o", "v", "a", "n">>,
    Holesky |-> <<"H", "o", "l", "e", "s", "k", "y">>,
    Hoodi |-> <<"H", "o", "o", "d", "i">>,
    Sepolia |-> <<"S", "e", "p", "o", "l", "i", "a">>,
    Odyssey |-> <<"O", "d", "y", "s", "s", "e", "y">>,
    Optimism |-> <<"O", "p", "t", "i", "m", "i", "s", "m">>,
    OptimismKovan |-> <<"O", "p", "t", "i", "m", "i", "s", "m", "K", "o", "v", "a", "n">>,
    OptimismGoerli |-> <<"O", "p", "t", "i", "m", "i", "s", "m", "G", "o", "e", "r", "l", "i">>,
    OptimismSepolia |-> <<"O", "p", "t", "i", "m", "i", "s", "m", "S", "e", "p", "o", "l", "i", "a">>,
    Bob |-> <<"B", "o", "b">>,
    BobSepolia |-> <<"B", "o", "b", "S", "e", "p", "o", "l", "i", "a">>,
    Arbitrum |-> <<"A", "r", "b", "i", "t", "r", "u", "m">>,
    ArbitrumTestnet |-> <<"A", "r", "b", "i", "t", "r", "u", "m", "T", "e", "s", "t", "n", "e", "t">>,
    ArbitrumGoerli |-> <<"A", "r", "b", "i", "t", "r", "u", "m", "G", "o", "e", "r", "l", "i">>,
    ArbitrumSepolia |-> <<"A", "r", "b", "i", "t", "r", "u", "m", "S", "e", "p", "o", "l", "i", "a">>,
    ArbitrumNova |-> <<"A", "r", "b", "i", "t", "r", "u", "m", "N", "o", "v", "a">>,
    Cronos |-> <<"C", "r", "o", "n", "o", "s">>,
    CronosTestnet |-> <<"C", "r", "o", "n", "o", "s", "T", "e", "s", "t", "n", "e", "t">>,
    Rsk |-> <<"R", "s", "k">>,
    RskTestnet |-> <<"R", "s", "k", "T", "e", "s", "t", "n", "e", "t">>,
    TelosEvm |-> <<"T", "e", "l", "o", "s", "E", "v", "m">>,
    TelosEvmTestnet |-> <<"T", "e", "l", "o", "s", "E", "v", "m", "T", "e", "s", "t", "n", "e", "t">>,
    Crab |-> <<"C", "r", "a", "b">>,
    Darwinia |-> <<"D", "a", "r", "w", "i", "n", "i", "a">>,
    Koi |-> <<"K", "o", "i">>,
    BinanceSmartChain |-> <<"B", "i", "n", "a", "n", "c", "e", "S", "m", "a", "r", "t", "C", "h", "a", "i", "n">>,
    BinanceSmartChainTestnet |-> <<"B", "i", "n", "a", "n", "c", "e", "S", "m", "a", "r", "t", "C", "h", "a", "i", "n", "T", "e", "s", "t", "n", "e", "t">>,
    Poa |-> <<"P", "o", "a">>,
    Sokol |-> <<"S", "o", "k", "o", "l">>,
    Scroll |-> <<"S", "c", "r", "o", "l", "l">>,
    ScrollSepolia |-> <<"S", "c", "r", "o", "l", "l", "S", "e", "p", "o", "l", "i", "a">>,
    Metis |-> <<"M", "e", "t", "i", "s">>,
    CfxTestnet |-> <<"C", "f", "x", "T", "e", "s", "t", "n", "e", "t">>,
    Cfx |-> <<"C", "f", "x">>,
    Gnosis |-> <<"G", "n", "o", "s", "i", "s">>,
    Polygon |-> <<"P", "o", "l", "y", "g", "o", "n">>,
    PolygonAmoy |-> <<"P", "o", "l", "y", "g", "o", "n", "A", "m", "o", "y">>,
    Fantom |-> <<"F", "a", "n", "t", "o", "m">>,
    FantomTestnet |-> <<"F", "a", "n", "t", "o", "m", "T", "e", "s", "t", "n", "e", "t">>,
    Moonbeam |-> <<"M", "o", "o", "n", "b", "e", "a", "m">>,
    MoonbeamDev |-> <<"M", "o", "o", "n", "b", "e", "a", "m", "D", "e", "v">>,
    Moonriver |-> <<"M", "o", "o", "n", "r", "i", "v", "e", "r">>,
    Moonbase |-> <<"M", "o", "o", "n", "b", "a", "s", "e">>,
    Dev |-> <<"D", "e", "v">>,
    AnvilHardhat |-> <<"A", "n", "v", "i", "l", "H", "a", "r", "d", "h", "a", "t">>,
    GravityAlphaMainnet |-> <<"G", "r", "a", "v", "i", "t", "y", "A", "l", "p", "h", "a", "M", "a", "i", "n", "n", "e", "t">>,
    GravityAlphaTestnetSepolia |-> <<"G", "r", "a", "v", "i", "t", "y", "A", "l", "p", "h", "a", "T", "e", "s", "t", "n", "e", "t", "S", "e", "p", "o", "l", "i", "a">>,
    Evmos |-> <<"E", "v", "m", "o", "s">>,
    EvmosTestnet |-> <<"E", "v", "m", "o", "s", "T", "e", "s", "t", "n", "e", "t">>,
    Plasma |-> <<"P", "l", "a", "s", "m", "a">>,
    Chiado |-> <<"C", "h", "i", "a", "d", "o">>,
    Oasis |-> <<"O", "a", "s", "i", "s">>,
    Emerald |-> <<"E", "m", "e", "r", "a", "l", "d">>,
    EmeraldTestnet |-> <<"E", "m", "e", "r", "a", "l", "d", "T", "e", "s", "t", "n", "e", "t">>,
    FilecoinMainnet |-> <<"F", "i", "l", "e", "c", "o", "i", "n", "M", "a", "i", "n", "n", "e", "t">>,
    FilecoinCalibrationTestnet |-> <<"F", "i", "l", "e", "c", "o", "i", "n", "C", "a", "l", "i", "b", "r", "a", "t", "i", "o", "n", "T", "e", "s", "t", "n", "e", "t">>,
    Avalanche |-> <<"A", "v", "a", "l", "a", "n", "c", "h", "e">>,
    AvalancheFuji |-> <<"A", "v", "a", "l", "a", "n", "c", "h", "e", "F", "u", "j", "i">>,
    Celo |-> <<"C", "e", "l", "o">>,
    CeloSepolia |-> <<"C", "e", "l", "o", "S", "e", "p", "o", "l", "i", "a">>,
    Aurora |-> <<"A", "u", "r", "o", "r", "a">>,
    AuroraTestnet |-> <<"A", "u", "r", "o", "r", "a", "T", "e", "s", "t", "n", "e", "t">>,
    Canto |-> <<"C", "a", "n", "t", "o">>,
    CantoTestnet |-> <<"C", "a", "n", "t", "o", "T", "e", "s", "t", "n", "e", "t">>,
    Boba |-> <<"B", "o", "b", "a">>,
    Base |-> <<"B", "a", "s", "e">>,
    BaseGoerli |-> <<"B", "a", "s", "e", "G", "o", "e", "r", "l", "i">>,
    BaseSepolia |-> <<"B", "a", "s", "e", "S", "e", "p", "o", "l", "i", "a">>,
    Syndr |-> <<"S", "y", "n", "d", "r">>,
    SyndrSepolia |-> <<"S", "y", "n", "d", "r", "S", "e", "p", "o", "l", "i", "a">>,
    Shimmer |-> <<"S", "h", "i", "m", "m", "e", "r">>,
    Ink |-> <<"I", "n", "k">>,
    InkSepolia |-> <<"I", "n", "k", "S", "e", "p", "o", "l", "i", "a">>,
    Fraxtal |-> <<"F", "r", "a", "x", "t", "a", "l">>,
    FraxtalTestnet |-> <<"F", "r", "a", "x", "t", "a", "l", "T", "e", "s", "t", "n", "e", "t">>,
    Blast |-> <<"B", "l", "a", "s", "t">>,
    BlastSepolia |-> <<"B", "l", "a", "s", "t", "S", "e", "p", "o", "l", "i", "a">>,
    Linea |-> <<"L", "i", "n", "e", "a">>,
    LineaGoerli |-> <<"L", "i", "n", "e", "a", "G", "o", "e", "r", "l", "i">>,
    LineaSepolia |-> <<"L", "i", "n", "e", "a", "S", "e", "p", "o", "l", "i", "a">>,
    ZkSync |-> <<"Z", "k", "S", "y", "n", "c">>,
    ZkSyncTestnet |-> <<"Z", "k", "S", "y", "n", "c", "T", "e", "s", "t", "n", "e", "t">>,
    Mantle |-> <<"M", "a", "n", "t", "l", "e">>,
    MantleSepolia |-> <<"M", "a", "n", "t", "l", "e", "S", "e", "p", "o", "l", "i", "a">>,
    Xai |-> <<"X", "a", "i">>,
    XaiSepolia |-> <<"X", "a", "i", "S", "e", "p", "o", "l", "i", "a">>,
    HappychainTestnet |-> <<"H", "a", "p", "p", "y", "c", "h", "a", "i", "n", "T", "e", "s", "t", "n", "e", "t">>,
    Viction |-> <<"V", "i", "c", "t", "i", "o", "n">>,
    Zora |-> <<"Z", "o", "r", "a">>,
    ZoraSepolia |-> <<"Z", "o", "r", "a", "S", "e", "p", "o", "l", "i", "a">>,
    Pgn |-> <<"P", "g", "n">>,
    PgnSepolia |-> <<"P", "g", "n", "S", "e", "p", "o", "l", "i", "a">>,
    Mode |-> <<"M", "o", "d", "e">>,
    ModeSepolia |-> <<"M", "o", "d", "e", "S", "e", "p", "o", "l", "i", "a">>,
    Elastos |-> <<"E", "l", "a", "s", "t", "o", "s">>,
    Etherlink |-> <<"E", "t", "h", "e", "r", "l", "i", "n", "k">>,
    EtherlinkTestnet |-> <<"E", "t", "h", "e", "r", "l", "i", "n", "k", "T", "e", "s", "t", "n", "e", "t">>,
    Degen |-> <<"D", "e", "g", "e", "n">>,
    OpBNBMainnet |-> <<"O", "p", "B", "N", "B", "M", "a", "i", "n", "n", "e", "t">>,
    OpBNBTestnet |-> <<"O", "p", "B", "N", "B", "T", "e", "s", "t", "n", "e", "t">>,
    Ronin |-> <<"R", "o", "n", "i", "n">>,
    RoninTestnet |-> <<"R", "o", "n", "i", "n", "T", "e", "s", "t", "n", "e", "t">>,
    Taiko |-> <<"T", "a", "i", "k", "o">>,
    TaikoHekla |-> <<"T", "a", "i", "k", "o", "H", "e", "k", "l", "a">>,
    AutonomysNovaTestnet |-> <<"A", "u", "t", "o", "n", "o", "m", "y", "s", "N", "o", "v", "a", "T", "e", "s", "t", "n", "e", "t">>,
    Flare |-> <<"F", "l", "a", "r", "e">>,
    FlareCoston2 |-> <<"F", "l", "a", "r", "e", "C", "o", "s", "t", "o", "n", "2">>,
    Acala |-> <<"A", "c", "a", "l", "a">>,
    AcalaMandalaTestnet |-> <<"A", "c", "a", "l", "a", "M", "a", "n", "d", "a", "l", "a", "T", "e", "s", "t", "n", "e", "t">>,
    AcalaTestnet |-> <<"A", "c", "a", "l", "a", "T", "e", "s", "t", "n", "e", "t">>,
    Karura |-> <<"K", "a", "r", "u", "r", "a">>,
    KaruraTestnet |-> <<"K", "a", "r", "u", "r", "a", "T", "e", "s", "t", "n", "e", "t">>,
    Pulsechain |-> <<"P", "u", "l", "s", "e", "c", "h", "a", "i", "n">>,
    PulsechainTestnet |-> <<"P", "u", "l", "s", "e", "c", "h", "a", "i", "n", "T", "e", "s", "t", "n", "e", "t">>,
    Cannon |-> <<"C", "a", "n", "n", "o", "n">>,
    Immutable |-> <<"I", "m", "m", "u", "t", "a", "b", "l", "e">>,
    ImmutableTestnet |-> <<"I", "m", "m", "u", "t", "a", "b", "l", "e", "T", "e", "s", "t", "n", "e", "t">>,
    Soneium |-> <<"S", "o", "n", "e", "i", "u", "m">>,
    SoneiumMinatoTestnet |-> <<"S", "o", "n", "e", "i", "u", "m", "M", "i", "n", "a", "t", "o", "T", "e", "s", "t", "n", "e", "t">>,
    World |-> <<"W", "o", "r", "l", "d">>,
    WorldSepolia |-> <<"W", "o", "r", "l", "d", "S", "e", "p", "o", "l", "i", "a">>,
    Iotex |-> <<"I", "o", "t", "e", "x">>,
    Core |-> <<"C", "o", "r", "e">>,
    Merlin |-> <<"M", "e", "r", "l", "i", "n">>,
    Bitlayer |-> <<"B", "i", "t", "l", "a", "y", "e", "r">>,
    Vana |-> <<"V", "a", "n", "a">>,
    Zeta |-> <<"Z", "e", "t", "a">>,
    Kaia |-> <<"K", "a", "i", "a">>,
    Story |-> <<"S", "t", "o", "r", "y">>,
    Sei |-> <<"S", "e", "i">>,
    SeiTestnet |-> <<"S", "e", "i", "T", "e", "s", "t", "n", "e", "t">>,
    StableMainnet |-> <<"S", "t", "a", "b", "l", "e", "M", "a", "i", "n", "n", "e", "t">>,
    StableTestnet |-> <<"S", "t", "a", "b", "l", "e", "T", "e", "s", "t", "n", "e", "t">>,
    Unichain |-> <<"U", "n", "i", "c", "h", "a", "i", "n">>,
    UnichainSepolia |-> <<"U", "n", "i", "c", "h", "a", "i", "n", "S", "e", "p", "o", "l", "i", "a">>,
    SignetPecorino |-> <<"S", "i", "g", "n", "e", "t", "P", "e", "c", "o", "r", "i", "n", "o">>,
    ApeChain |-> <<"A", "p", "e", "C", "h", "a", "i", "n">>,
    Curtis |-> <<"C", "u", "r", "t", "i", "s">>,
    Sonic |-> <<"S", "o", "n", "i", "c">>,
    SonicTestnet |-> <<"S", "o", "n", "i", "c", "T", "e", "s", "t", "n", "e", "t">>,
    Treasure |-> <<"T", "r", "e", "a", "s", "u", "r", "e">>,
    TreasureTopaz |-> <<"T", "r", "e", "a", "s", "u", "r", "e", "T", "o", "p", "a", "z">>,
    BerachainBepolia |-> <<"B", "e", "r", "a", "c", "h", "a", "i", "n", "B", "e", "p", "o", "l", "i", "a">>,
    Berachain |-> <<"B", "e", "r", "a", "c", "h", "a", "i", "n">>,
    SuperpositionTestnet |-> <<"S", "u", "p", "e", "r", "p", "o", "s", "i", "t", "i", "o", "n", "T", "e", "s", "t", "n", "e", "t">>,
    Superposition |-> <<"S", "u", "p", "e", "r", "p", "o", "s", "i", "t", "i", "o", "n">>,
    Monad |-> <<"M", "o", "n", "a", "d">>,
    MonadTestnet |-> <<"M", "o", "n", "a", "d", "T", "e", "s", "t", "n", "e", "t">>,
    Hyperliquid |-> <<"H", "y", "p", "e", "r", "l", "i", "q", "u", "i", "d">>,
    Abstract |-> <<"A", "b", "s", "t", "r", "a", "c", "t">>,
    AbstractTestnet |-> <<"A", "b", "s", "t", "r", "a", "c", "t", "T", "e", "s", "t", "n", "e", "t">>,
    Corn |-> <<"C", "o", "r", "n">>,
    CornTestnet |-> <<"C", "o", "r", "n", "T", "e", "s", "t", "n", "e", "t">>,
    Sophon |-> <<"S", "o", "p", "h", "o", "n">>,
    SophonTestnet |-> <<"S", "o", "p", "h", "o", "n", "T", "e", "s", "t", "n", "e", "t">>,
    PolkadotTestnet |-> <<"P", "o", "l", "k", "a", "d", "o", "t", "T", "e", "s", "t", "n", "e", "t">>,
    Lens |-> <<"L", "e", "n", "s">>,
    LensTestnet |-> <<"L", "e", "n", "s", "T", "e", "s", "t", "n", "e", "t">>,
    Injective |-> <<"I", "n", "j", "e", "c", "t", "i", "v", "e">>,
    InjectiveTestnet |-> <<"I", "n", "j", "e", "c", "t", "i", "v", "e", "T", "e", "s", "t", "n", "e", "t">>,
    Katana |-> <<"K", "a", "t", "a", "n", "a">>,
    Lisk |-> <<"L", "i", "s", "k">>,
    Fuse |-> <<"F", "u", "s", "e">>,
    FluentDevnet |-> <<"F", "l", "u", "e", "n", "t", "D", "e", "v", "n", "e", "t">>,
    FluentTestnet |-> <<"F", "l", "u", "e", "n", "t", "T", "e", "s", "t", "n", "e", "t">>,
    SkaleBase |-> <<"S", "k", "a", "l", "e", "B", "a", "s", "e">>,
    SkaleBaseTestnet |-> <<"S", "k", "a", "l", "e", "B", "a", "s", "e", "T", "e", "s", "t", "n", "e", "t">>,
    MemeCore |-> <<"M", "e", "m", "e", "C", "o", "r", "e">>,
    Formicarium |-> <<"F", "o", "r", "m", "i", "c", "a", "r", "i", "u", "m">>,
    Insectarium |-> <<"I", "n", "s", "e", "c", "t", "a", "r", "i", "u", "m">> ]

\* #[strum(to_string = "...")] of the variants that carry one.
StrumToString ==
  [ Mainnet |-> <<"m", "a", "i", "n", "n", "e", "t">>,
    Bob |-> <<"b", "o", "b">>,
    BobSepolia |-> <<"b", "o", "b", "-", "s", "e", "p", "o", "l", "i", "a">>,
    TelosEvm |-> <<"t", "e", "l", "o", "s">>,
    TelosEvmTestnet |-> <<"t", "e", "l", "o", "s", "-", "t", "e", "s", "t", "n", "e", "t">>,
    Crab |-> <<"c", "r", "a", "b">>,
    Darwinia |-> <<"d", "a", "r", "w", "i", "n", "i", "a">>,
    Koi |-> <<"k", "o", "i">>,
    BinanceSmartChain |-> <<"b", "s", "c">>,
    BinanceSmartChainTestnet |-> <<"b", "s", "c", "-", "t", "e", "s", "t", "n", "e", "t">>,
    Gnosis |-> <<"x", "d", "a", "i">>,
    PolygonAmoy |-> <<"a", "m", "o", "y">>,
    AnvilHardhat |-> <<"a", "n", "v", "i", "l", "-", "h", "a", "r", "d", "h", "a", "t">>,
    GravityAlphaMainnet |-> <<"g", "r", "a", "v", "i", "t", "y", "-", "a", "l", "p", "h", "a", "-", "m", "a", "i", "n", "n", "e", "t">>,
    GravityAlphaTestnetSepolia |-> <<"g", "r", "a", "v", "i", "t", "y", "-", "a", "l", "p", "h", "a", "-", "t", "e", "s", "t", "n", "e", "t", "-", "s", "e", "p", "o", "l", "i", "a">>,
    AvalancheFuji |-> <<"f", "u", "j", "i">>,
    Fraxtal |-> <<"f", "r", "a", "x", "t", "a", "l">>,
    FraxtalTestnet |-> <<"f", "r", "a", "x", "t", "a", "l", "-", "t", "e", "s", "t", "n", "e", "t">>,
    ZkSync |-> <<"z", "k", "s", "y", "n", "c">>,
    ZkSyncTestnet |-> <<"z", "k", "s", "y", "n", "c", "-", "t", "e", "s", "t", "n", "e", "t">>,
    Mantle |-> <<"m", "a", "n", "t", "l", "e">>,
    MantleSepolia |-> <<"m", "a", "n", "t", "l", "e", "-", "s", "e", "p", "o", "l", "i", "a">>,
    Xai |-> <<"x", "a", "i">>,
    XaiSepolia |-> <<"x", "a", "i", "-", "s", "e", "p", "o", "l", "i", "a">>,
    HappychainTestnet |-> <<"h", "a", "p", "p", "y", "c", "h", "a", "i", "n", "-", "t", "e", "s", "t", "n", "e", "t">>,
    OpBNBMainnet |-> <<"o", "p", "b", "n", "b", "-", "m", "a", "i", "n", "n", "e", "t">>,
    OpBNBTestnet |-> <<"o", "p", "b", "n", "b", "-", "t", "e", "s", "t", "n", "e", "t">>,
    AutonomysNovaTestnet |-> <<"a", "u", "t", "o", "n", "o", "m", "y", "s", "-", "n", "o", "v", "a", "-", "t", "e", "s", "t", "n", "e", "t">>,
    Acala |-> <<"a", "c", "a", "l", "a">>,
    AcalaMandalaTestnet |-> <<"a", "c", "a", "l", "a", "-", "m", "a", "n", "d", "a", "l", "a", "-", "t", "e", "s", "t", "n", "e", "t">>,
    AcalaTestnet |-> <<"a", "c", "a", "l", "a", "-", "t", "e", "s", "t", "n", "e", "t">>,
    Karura |-> <<"k", "a", "r", "u", "r", "a">>,
    KaruraTestnet |-> <<"k", "a", "r", "u", "r", "a", "-", "t", "e", "s", "t", "n", "e", "t">>,
    Pulsechain |-> <<"p", "u", "l", "s", "e", "c", "h", "a", "i", "n">>,
    PulsechainTestnet |-> <<"p", "u", "l", "s", "e", "c", "h", "a", "i", "n", "-", "t", "e", "s", "t", "n", "e", "t">>,
    Cannon |-> <<"c", "a", "n", "n", "o", "n">>,
    Immutable |-> <<"i", "m", "m", "u", "t", "a", "b", "l", "e">>,
    ImmutableTestnet |-> <<"i", "m", "m", "u", "t", "a", "b", "l", "e", "-", "t", "e", "s", "t", "n", "e", "t">>,
    Soneium |-> <<"s", "o", "n", "e", "i", "u", "m">>,
    SoneiumMinatoTestnet |-> <<"s", "o", "n", "e", "i", "u", "m", "-", "m", "i", "n", "a", "t", "o", "-", "t", "e", "s", "t", "n", "e", "t">>,
    WorldSepolia |-> <<"w", "o", "r", "l", "d", "-", "s", "e", "p", "o", "l", "i", "a">>,
    SeiTestnet |-> <<"s", "e", "i", "-", "t", "e", "s", "t", "n", "e", "t">>,
    StableMainnet |-> <<"s", "t", "a", "b", "l", "e", "-", "m", "a", "i", "n", "n", "e", "t">>,
    StableTestnet |-> <<"s", "t", "a", "b", "l", "e", "-", "t", "e", "s", "t", "n", "e", "t">>,
    UnichainSepolia |-> <<"u", "n", "i", "c", "h", "a", "i", "n", "-", "s", "e", "p", "o", "l", "i", "a">>,
    SignetPecorino |-> <<"s", "i", "g", "n", "e", "t", "-", "p", "e", "c", "o", "r", "i", "n", "o">>,
    ApeChain |-> <<"a", "p", "e", "c", "h", "a", "i", "n">>,
    Curtis |-> <<"c", "u", "r", "t", "i", "s">>,
    Sonic |-> <<"s", "o", "n", "i", "c">>,
    SonicTestnet |-> <<"s", "o", "n", "i", "c", "-", "t", "e", "s", "t", "n", "e", "t">>,
    Treasure |-> <<"t", "r", "e", "a", "s", "u", "r", "e">>,
    TreasureTopaz |-> <<"t", "r", "e", "a", "s", "u", "r", "e", "-", "t", "o", "p", "a", "z">>,
    BerachainBepolia |-> <<"b", "e", "r", "a", "c", "h", "a", "i", "n", "-", "b", "e", "p", "o", "l", "i", "a">>,
    SuperpositionTestnet |-> <<"s", "u", "p", "e", "r", "p", "o", "s", "i", "t", "i", "o", "n", "-", "t", "e", "s", "t", "n", "e", "t">>,
    Superposition |-> <<"s", "u", "p", "e", "r", "p", "o", "s", "i", "t", "i", "o", "n">>,
    Hyperliquid |-> <<"h", "y", "p", "e", "r", "l", "i", "q", "u", "i", "d">>,
    Abstract |-> <<"a", "b", "s", "t", "r", "a", "c", "t">>,
    AbstractTestnet |-> <<"a", "b", "s", "t", "r", "a", "c", "t", "-", "t", "e", "s", "t", "n", "e", "t">>,
    Corn |-> <<"c", "o", "r", "n">>,
    CornTestnet |-> <<"c", "o", "r", "n", "-", "t", "e", "s", "t", "n", "e", "t">>,
    Sophon |-> <<"s", "o", "p", "h", "o", "n">>,
    SophonTestnet |-> <<"s", "o", "p", "h", "o", "n", "-", "t", "e", "s", "t", "n", "e", "t">>,
    PolkadotTestnet |-> <<"p", "o", "l", "k", "a", "d", "o", "t", "-", "t", "e", "s", "t", "n", "e", "t">>,
    Lens |-> <<"l", "e", "n", "s">>,
    LensTestnet |-> <<"l", "e", "n", "s", "-", "t", "e", "s", "t", "n", "e", "t">>,
    Injective |-> <<"i", "n", "j", "e", "c", "t", "i", "v", "e">>,
    InjectiveTestnet |-> <<"i", "n", "j", "e", "c", "t", "i", "v", "e", "-", "t", "e", "s", "t", "n", "e", "t">>,
    Katana |-> <<"k", "a", "t", "a", "n", "a">>,
    Lisk |-> <<"l", "i", "s", "k">>,
    Fuse |-> <<"f", "u", "s", "e">>,
    FluentDevnet |-> <<"f", "l", "u", "e", "n", "t", "-", "d", "e", "v", "n", "e", "t">>,
    FluentTestnet |-> <<"f", "l", "u", "e", "n", "t", "-", "t", "e", "s", "t", "n", "e", "t">>,
    SkaleBase |-> <<"s", "k", "a", "l", "e", "-", "b", "a", "s", "e">>,
    SkaleBaseTestnet |-> <<"s", "k", "a", "l", "e", "-", "b", "a", "s", "e", "-", "t", "e", "s", "t", "n", "e", "t">>,
    MemeCore |-> <<"m", "e", "m", "e", "c", "o", "r", "e">>,
    Formicarium |-> <<"f", "o", "r", "m", "i", "c", "a", "r", "i", "u", "m">>,
    Insectarium |-> <<"i", "n", "s", "e", "c", "t", "a", "r", "i", "u", "m">> ]

\* #[strum(serialize = "...")] of the variants that carry any, in attribute order.
StrumSerialize ==
  [ Mainnet |-> << <<"e", "t", "h", "l", "i", "v", "e">> >>,
    BinanceSmartChain |-> << <<"b", "i", "n", "a", "n", "c", "e", "-", "s", "m", "a", "r", "t", "-", "c", "h", "a", "i", "n">>, <<"b", "n", "b", "-", "s", "m", "a", "r", "t", "-", "c", "h", "a", "i", "n">> >>,
    BinanceSmartChainTestnet |-> << <<"b", "i", "n", "a", "n", "c", "e", "-", "s", "m", "a", "r", "t", "-", "c", "h", "a", "i", "n", "-", "t", "e", "s", "t", "n", "e", "t">>, <<"b", "n", "b", "-", "s", "m", "a", "r", "t", "-", "c", "h", "a", "i", "n", "-", "t", "e", "s", "t", "n", "e", "t">> >>,
    Gnosis |-> << <<"g", "n", "o", "s", "i", "s">>, <<"g", "n", "o", "s", "i", "s", "-", "c", "h", "a", "i", "n">> >>,
    PolygonAmoy |-> << <<"p", "o", "l", "y", "g", "o", "n", "-", "a", "m", "o", "y">> >>,
    AnvilHardhat |-> << <<"a", "n", "v", "i", "l">>, <<"h", "a", "r", "d", "h", "a", "t">> >>,
    AvalancheFuji |-> << <<"a", "v", "a", "l", "a", "n", "c", "h", "e", "-", "f", "u", "j", "i">> >>,
    Curtis |-> << <<"a", "p", "e", "c", "h", "a", "i", "n", "-", "t", "e", "s", "t", "n", "e", "t">> >>,
    TreasureTopaz |-> << <<"t", "r", "e", "a", "s", "u", "r", "e", "-", "t", "o", "p", "a", "z", "-", "t", "e", "s", "t", "n", "e", "t">> >>,
    BerachainBepolia |-> << <<"b", "e", "r", "a", "c", "h", "a", "i", "n", "-", "b", "e", "p", "o", "l", "i", "a", "-", "t", "e", "s", "t", "n", "e", "t">> >>,
    Monad |-> << <<"m", "o", "n", "a", "d">> >>,
    MonadTestnet |-> << <<"m", "o", "n", "a", "d", "-", "t", "e", "s", "t", "n", "e", "t">> >>,
    Formicarium |-> << <<"m", "e", "m", "e", "c", "o", "r", "e", "-", "f", "o", "r", "m", "i", "c", "a", "r", "i", "u", "m">> >>,
    Insectarium |-> << <<"m", "e", "m", "e", "c", "o", "r", "e", "-", "i", "n", "s", "e", "c", "t", "a", "r", "i", "u", "m">> >> ]

NamedChains == Range(VARIANTS)

\* Mutant of Discriminant: Hoodi carries the number of the variant above it.
Discriminant_copied(v) ==
  IF v = "Hoodi" THEN DiscriminantTable["Holesky"] ELSE DiscriminantTable[v]

\* `chain as u64`.
Discriminant(v) == DiscriminantTable[v]

----------------------------------------------------------------------------
(* What the derives of NamedChain generate *)

\* heck's word splitting of an identifier (ToKebabCase): a word ends after a
\* lowercase character followed by an uppercase one, and before the last
\* uppercase character of a run that a lowercase character follows; a digit
\* keeps the mode of the characters before it.
RECURSIVE heck_words(_, _, _, _)
heck_words(word, i, init, mode) ==
  IF i = Len(word) THEN <<SubSeq(word, init, Len(word))>>
  ELSE LET c == word[i]
           next == word[i + 1]
           next_mode == IF is_lowercase(c) THEN "Lowercase"
                        ELSE IF is_uppercase(c) THEN "Uppercase"
                        ELSE mode
       IN  IF next_mode = "Lowercase" /\ is_uppercase(next)
           THEN <<SubSeq(word, init, i)>> \o heck_words(word, i + 1, i + 1, "Boundary")
           ELSE IF mode = "Uppercase" /\ is_uppercase(c) /\ is_lowercase(next)
           THEN <<SubSeq(word, init, i - 1)>> \o heck_words(word, i + 1, i, "Boundary")
           ELSE heck_words(word, i + 1, init, next_mode)

RECURSIVE join_words(_, _)
join_words(words, sep) ==
  IF Len(words) = 1 THEN to_lowercase(words[1])
  ELSE to_lowercase(words[1]) \o sep \o join_words(Tail(words), sep)

\* #[strum(serialize_all = "kebab-case")] applied to a variant identifier.
to_kebab_case(ident) == join_words(heck_words(ident, 1, 1, "Boundary"), <<"-">>)

\* The longest of a non-empty sequence of texts, the last one among equals
\* (Iterator::max_by_key).
RECURSIVE max_by_len(_)
max_by_len(ss) ==
  IF Len(ss) = 1 THEN ss[1]
  ELSE LET m == max_by_len(SubSeq(ss, 1, Len(ss) - 1))
       IN  IF Len(ss[Len(ss)]) >= Len(m) THEN ss[Len(ss)] ELSE m

\* Mutant of get_preferred_name: the to_string and serialize attributes are
\* ignored.
get_preferred_name_of_ident(v) == to_kebab_case(VariantIdent[v])

\* strum's preferred name of a variant, used by IntoStaticStr (as_str,
\* Display, AsRef<str>, Serialize): to_string when given, else the longest
\* serialize string, else the kebab-case identifier.
get_preferred_name(v) ==
  IF v \in DOMAIN StrumToString THEN StrumToString[v]
  ELSE IF v \in DOMAIN StrumSerialize THEN max_by_len(StrumSerialize[v])
  ELSE to_kebab_case(VariantIdent[v])

\* Mutant of get_serializations: to_string hides the serialize strings.
get_serializations_to_string_first(v) ==
  IF v \in DOMAIN StrumToString THEN {StrumToString[v]}
  ELSE IF v \in DOMAIN StrumSerialize THEN Range(StrumSerialize[v])
  ELSE {to_kebab_case(VariantIdent[v])}

\* Mutant of get_serializations: the first word of the identifier is accepted
\* as well.
get_serializations_and_first_word(v) ==
  LET attrs == (IF v \in DOMAIN StrumSerialize THEN Range(StrumSerialize[v]) ELSE {})
               \cup (IF v \in DOMAIN StrumToString THEN {StrumToString[v]} ELSE {})
  IN  (IF attrs = {} THEN {to_kebab_case(VariantIdent[v])} ELSE attrs)
        \cup {to_lowercase(heck_words(VariantIdent[v], 1, 1, "Boundary")[1])}

\* strum's serializations of a variant, matched by EnumString (FromStr): the
\* serialize strings and to_string when any is given, else the kebab-case
\* identifier alone.
get_serializations(v) ==
  LET attrs == (IF v \in DOMAIN StrumSerialize THEN Range(StrumSerialize[v]) ELSE {})
               \cup (IF v \in DOMAIN StrumToString THEN {StrumToString[v]} ELSE {})
  IN  IF attrs = {} THEN {to_kebab_case(VariantIdent[v])} ELSE attrs

\* A table of f over the variants lo..hi, keyed by variant.
RECURSIVE VariantTable(_, _, _)
VariantTable(f(_), lo, hi) ==
  IF lo = hi THEN VARIANTS[lo] :> f(VARIANTS[lo])
  ELSE LET mid == (lo + hi) \div 2
       IN  VariantTable(f, lo, mid) @@ VariantTable(f, mid + 1, hi)

\* Both names are fixed per variant when the derive expands.
PreferredName == VariantTable(get_preferred_name, 1, Len(VARIANTS))
Serializations == VariantTable(get_serializations, 1, Len(VARIANTS))

\* NamedChain::as_str, and Display, to_string and AsRef<str>, which call it.
NamedChain_as_str(v) == PreferredName[v]
NamedChain_fmt(v) == NamedChain_as_str(v)
NamedChain_as_ref(v) == NamedChain_as_str(v)

\* The arms of a generated match over the variants lo..hi: each key of
\* keys(v) leads to v, and of two arms with one key the earlier is taken.
RECURSIVE MatchArms(_, _, _)
MatchArms(keys(_), lo, hi) ==
  IF lo = hi THEN [k \in keys(VARIANTS[lo]) |-> VARIANTS[lo]]
  ELSE LET mid == (lo + hi) \div 2
       IN  MatchArms(keys, lo, mid) @@ MatchArms(keys, mid + 1, hi)

\* derive(strum::EnumString): a case-sensitive match of the text against the
\* serializations of each variant in turn; VariantNotFound otherwise.
FromStrArms ==
  LET keys(v) == Serializations[v] IN MatchArms(keys, 1, Len(VARIANTS))

NamedChain_from_str(s) ==
  IF s \in DOMAIN FromStrArms THEN Ok(FromStrArms[s]) ELSE Err("VariantNotFound")

\* derive(num_enum::TryFromPrimitive): a match of the number against the
\* discriminant of each variant.
TryFromPrimitiveArms ==
  LET keys(v) == {Discriminant(v)} IN MatchArms(keys, 1, Len(VARIANTS))

NamedChain_try_from_u64(number) ==
  IF number \in DOMAIN TryFromPrimitiveArms THEN Ok(TryFromPrimitiveArms[number])
  ELSE Err("TryFromPrimitiveError")

\* A value of a native integer type: the type, whether it is signed, its
\* width in bits, and its bit pattern, zero-extended to four limbs.
Native(ty, signed, width, bits) ==
  [ty |-> ty, signed |-> signed, width |-> width, bits |-> bits]

\* The widths usize and isize have, by the target.
PointerWidths == {16, 32, 64}

\* The sign bit of the bit pattern of a value.
sign_bit(x) ==
  CASE x.width = 8 -> x.bits[4] >= 128
    [] x.width = 16 -> x.bits[4] >= 32768
    [] x.width = 32 -> x.bits[3] >= 32768
    [] x.width = 64 -> x.bits[1] >= 32768

\* Mutant of as_u64: the cast goes through the unsigned type of the same
\* width, so that the bit pattern is zero-extended.
as_u64_zero_extended(x) == x.bits

\* `value as u64`: zero extension of an unsigned value, sign extension of a
\* signed one.
as_u64(x) ==
  IF x.signed /\ sign_bit(x)
  THEN CASE x.width = 8 -> <<65535, 65535, 65535, 65280 + x.bits[4]>>
         [] x.width = 16 -> <<65535, 65535, 65535, x.bits[4]>>
         [] x.width = 32 -> <<65535, 65535, x.bits[3], x.bits[4]>>
         [] x.width = 64 -> x.bits
  ELSE x.bits

\* impl_try_from_numeric!: TryFrom<$native> for NamedChain.
NamedChain_try_from_native(x) == NamedChain_try_from_u64(as_u64(x))

----------------------------------------------------------------------------
(* The metadata functions of NamedChain *)

\* What a match that has no arm for its operand would give; rustc rejects
\* such a match, so no function of the program returns it.
NoArm == <<"NoArm">>

\* A variant added to the enumeration after the functions below were
\* written, and what the wildcard pattern `_` holds for: every variant,
\* also one added later.
NewVariant == "NewVariant"
AnyVariant == NamedChains \cup {NewVariant}

\* Whether a match has an arm for v: without one for some variant it does
\* not compile.
has_arm(arms, v) == \E i \in DOMAIN arms : v \in arms[i].pat

\* `match self { ... }`: the value of the first arm whose pattern holds v.
match_self(arms, v) ==
  LET hits == {i \in DOMAIN arms : v \in arms[i].pat}
  IN  IF hits = {} THEN NoArm
      ELSE arms[CHOOSE i \in hits : \A j \in hits : i <= j].val

\* NamedChain::is_ethereum: matches!(self, ...), which is a match with the listed
\* patterns as one arm and a wildcard arm.
is_ethereum_arms ==
  << [pat |-> {"Mainnet", "Morden", "Ropsten", "Rinkeby", "Goerli", "Kovan", "Holesky",
              "Sepolia"},
      val |-> TRUE],
     [pat |-> AnyVariant,
      val |-> FALSE] >>

NamedChain_is_ethereum(v) == match_self(is_ethereum_arms, v)

\* NamedChain::is_optimism: matches!(self, ...), which is a match with the listed
\* patterns as one arm and a wildcard arm.
is_optimism_arms ==
  << [pat |-> {"Optimism", "OptimismGoerli", "OptimismKovan", "OptimismSepolia", "Base",
              "BaseGoerli", "BaseSepolia", "Fraxtal", "FraxtalTestnet", "Ink", "InkSepolia",
              "Mode", "ModeSepolia", "Pgn", "PgnSepolia", "Zora", "ZoraSepolia", "BlastSepolia",
              "OpBNBMainnet", "OpBNBTestnet", "Soneium", "SoneiumMinatoTestnet", "Odyssey",
              "World", "WorldSepolia", "Unichain", "UnichainSepolia", "HappychainTestnet",
              "Lisk", "Celo", "Katana"},
      val |-> TRUE],
     [pat |-> AnyVariant,
      val |-> FALSE] >>

NamedChain_is_optimism(v) == match_self(is_optimism_arms, v)

\* NamedChain::is_gnosis: matches!(self, ...), which is a match with the listed
\* patterns as one arm and a wildcard arm.
is_gnosis_arms ==
  << [pat |-> {"Gnosis", "Chiado"},
      val |-> TRUE],
     [pat |-> AnyVariant,
      val |-> FALSE] >>

NamedChain_is_gnosis(v) == match_self(is_gnosis_arms, v)

\* NamedChain::is_polygon: matches!(self, ...), which is a match with the listed
\* patterns as one arm and a wildcard arm.
is_polygon_arms ==
  << [pat |-> {"Polygon", "PolygonAmoy"},
      val |-> TRUE],
     [pat |-> AnyVariant,
      val |-> FALSE] >>

NamedChain_is_polygon(v) == match_self(is_polygon_arms, v)

\* NamedChain::is_arbitrum: matches!(self, ...), which is a match with the listed
\* patterns as one arm and a wildcard arm.
is_arbitrum_arms ==
  << [pat |-> {"Arbitrum", "ArbitrumTestnet", "ArbitrumGoerli", "ArbitrumSepolia",
              "ArbitrumNova"},
      val |-> TRUE],
     [pat |-> AnyVariant,
      val |-> FALSE] >>

NamedChain_is_arbitrum(v) == match_self(is_arbitrum_arms, v)

\* NamedChain::is_elastic: matches!(self, ...), which is a match with the listed
\* patterns as one arm and a wildcard arm.
is_elastic_arms ==
  << [pat |-> {"ZkSync", "ZkSyncTestnet", "Abstract", "AbstractTestnet", "Sophon",
              "SophonTestnet", "Lens", "LensTestnet"},
      val |-> TRUE],
     [pat |-> AnyVariant,
      val |-> FALSE] >>

NamedChain_is_elastic(v) == match_self(is_elastic_arms, v)
\* NamedChain::average_blocktime_hint: Some(Duration::from_millis(ms)), as Some(ms),
\* or None. The arms of its match, in order.
average_blocktime_hint_arms ==
  << [pat |-> {"Mainnet", "Taiko", "TaikoHekla", "SignetPecorino"},
      val |-> Some(12000)],
     [pat |-> {"Arbitrum", "ArbitrumTestnet", "ArbitrumGoerli", "ArbitrumSepolia",
              "GravityAlphaMainnet", "GravityAlphaTestnetSepolia", "Xai", "XaiSepolia", "Syndr",
              "SyndrSepolia", "ArbitrumNova", "ApeChain", "Curtis", "SuperpositionTestnet",
              "Superposition"},
      val |-> Some(260)],
     [pat |-> {"Optimism", "OptimismGoerli", "OptimismSepolia", "Base", "BaseGoerli",
              "BaseSepolia", "Blast", "BlastSepolia", "Fraxtal", "FraxtalTestnet", "Zora",
              "ZoraSepolia", "Mantle", "MantleSepolia", "Mode", "ModeSepolia", "Pgn",
              "PgnSepolia", "HappychainTestnet", "Soneium", "SoneiumMinatoTestnet", "Bob",
              "BobSepolia"},
      val |-> Some(2000)],
     [pat |-> {"Ink", "InkSepolia", "Odyssey", "Plasma"},
      val |-> Some(1000)],
     [pat |-> {"Viction"},
      val |-> Some(2000)],
     [pat |-> {"Polygon", "PolygonAmoy"},
      val |-> Some(2100)],
     [pat |-> {"Acala", "AcalaMandalaTestnet", "AcalaTestnet", "Karura", "KaruraTestnet"},
      val |-> Some(12500)],
     [pat |-> {"Moonbeam", "Moonriver"},
      val |-> Some(6500)],
     [pat |-> {"BinanceSmartChain", "BinanceSmartChainTestnet"},
      val |-> Some(750)],
     [pat |-> {"Avalanche", "AvalancheFuji"},
      val |-> Some(2000)],
     [pat |-> {"Fantom", "FantomTestnet"},
      val |-> Some(1200)],
     [pat |-> {"Cronos", "CronosTestnet", "Canto", "CantoTestnet"},
      val |-> Some(5700)],
     [pat |-> {"Evmos", "EvmosTestnet"},
      val |-> Some(1900)],
     [pat |-> {"Aurora", "AuroraTestnet"},
      val |-> Some(1100)],
     [pat |-> {"Oasis"},
      val |-> Some(5500)],
     [pat |-> {"Emerald", "Darwinia", "Crab", "Koi"},
      val |-> Some(6000)],
     [pat |-> {"Dev", "AnvilHardhat"},
      val |-> Some(200)],
     [pat |-> {"Celo", "CeloSepolia"},
      val |-> Some(1000)],
     [pat |-> {"FilecoinCalibrationTestnet", "FilecoinMainnet"},
      val |-> Some(30000)],
     [pat |-> {"Scroll", "ScrollSepolia"},
      val |-> Some(3000)],
     [pat |-> {"Shimmer"},
      val |-> Some(5000)],
     [pat |-> {"Gnosis", "Chiado"},
      val |-> Some(5000)],
     [pat |-> {"Elastos"},
      val |-> Some(5000)],
     [pat |-> {"Etherlink"},
      val |-> Some(5000)],
     [pat |-> {"EtherlinkTestnet"},
      val |-> Some(5000)],
     [pat |-> {"Degen"},
      val |-> Some(600)],
     [pat |-> {"Cfx", "CfxTestnet"},
      val |-> Some(500)],
     [pat |-> {"OpBNBMainnet", "OpBNBTestnet", "AutonomysNovaTestnet"},
      val |-> Some(1000)],
     [pat |-> {"Ronin", "RoninTestnet"},
      val |-> Some(3000)],
     [pat |-> {"Flare"},
      val |-> Some(1800)],
     [pat |-> {"FlareCoston2"},
      val |-> Some(2500)],
     [pat |-> {"Pulsechain"},
      val |-> Some(10000)],
     [pat |-> {"PulsechainTestnet"},
      val |-> Some(10101)],
     [pat |-> {"Immutable", "ImmutableTestnet"},
      val |-> Some(2000)],
     [pat |-> {"World", "WorldSepolia"},
      val |-> Some(2000)],
     [pat |-> {"Iotex"},
      val |-> Some(5000)],
     [pat |-> {"Core"},
      val |-> Some(3000)],
     [pat |-> {"Merlin"},
      val |-> Some(3000)],
     [pat |-> {"Bitlayer"},
      val |-> Some(3000)],
     [pat |-> {"Vana"},
      val |-> Some(6000)],
     [pat |-> {"Zeta"},
      val |-> Some(6000)],
     [pat |-> {"Kaia"},
      val |-> Some(1000)],
     [pat |-> {"Story"},
      val |-> Some(2500)],
     [pat |-> {"Sei", "SeiTestnet"},
      val |-> Some(500)],
     [pat |-> {"StableMainnet", "StableTestnet"},
      val |-> Some(700)],
     [pat |-> {"Sonic", "SonicTestnet"},
      val |-> Some(1000)],
     [pat |-> {"TelosEvm", "TelosEvmTestnet"},
      val |-> Some(500)],
     [pat |-> {"UnichainSepolia", "Unichain"},
      val |-> Some(1000)],
     [pat |-> {"BerachainBepolia", "Berachain"},
      val |-> Some(2000)],
     [pat |-> {"Monad", "MonadTestnet"},
      val |-> Some(400)],
     [pat |-> {"Hyperliquid"},
      val |-> Some(2000)],
     [pat |-> {"Abstract", "AbstractTestnet"},
      val |-> Some(1000)],
     [pat |-> {"ZkSync", "ZkSyncTestnet"},
      val |-> Some(1000)],
     [pat |-> {"Sophon", "SophonTestnet"},
      val |-> Some(1000)],
     [pat |-> {"Lens", "LensTestnet"},
      val |-> Some(1000)],
     [pat |-> {"Rsk", "RskTestnet"},
      val |-> Some(25000)],
     [pat |-> {"Injective", "InjectiveTestnet"},
      val |-> Some(700)],
     [pat |-> {"Katana"},
      val |-> Some(1000)],
     [pat |-> {"Lisk"},
      val |-> Some(2000)],
     [pat |-> {"Fuse"},
      val |-> Some(5000)],
     [pat |-> {"FluentDevnet"},
      val |-> Some(3000)],
     [pat |-> {"FluentTestnet"},
      val |-> Some(1000)],
     [pat |-> {"MemeCore", "Formicarium", "Insectarium"},
      val |-> Some(7000)],
     [pat |-> {"SkaleBase", "SkaleBaseTestnet"},
      val |-> Some(10000)],
     [pat |-> {"Morden", "Ropsten", "Rinkeby", "Goerli", "Kovan", "Sepolia", "Holesky", "Hoodi",
              "Moonbase", "MoonbeamDev", "OptimismKovan", "Poa", "Sokol", "EmeraldTestnet",
              "Boba", "Metis", "Linea", "LineaGoerli", "LineaSepolia", "Treasure",
              "TreasureTopaz", "Corn", "CornTestnet", "Cannon", "PolkadotTestnet"},
      val |-> None] >>

NamedChain_average_blocktime_hint(v) == match_self(average_blocktime_hint_arms, v)

\* NamedChain::is_legacy. The arms of its match, in order.
is_legacy_arms ==
  << [pat |-> {"Elastos", "Emerald", "EmeraldTestnet", "Fantom", "FantomTestnet",
              "OptimismKovan", "Ronin", "RoninTestnet", "Rsk", "RskTestnet", "Shimmer",
              "Treasure", "TreasureTopaz", "Viction", "Sophon", "SophonTestnet"},
      val |-> TRUE],
     [pat |-> {"Mainnet", "Goerli", "Sepolia", "Holesky", "Hoodi", "Odyssey", "Acala",
              "AcalaMandalaTestnet", "AcalaTestnet", "ArbitrumTestnet", "Base", "BaseGoerli",
              "BaseSepolia", "Boba", "Metis", "Oasis", "Blast", "BlastSepolia", "Celo",
              "CeloSepolia", "Fraxtal", "FraxtalTestnet", "Optimism", "OptimismGoerli",
              "OptimismSepolia", "Bob", "BobSepolia", "Polygon", "PolygonAmoy", "Avalanche",
              "AvalancheFuji", "Arbitrum", "ArbitrumGoerli", "ArbitrumSepolia", "ArbitrumNova",
              "GravityAlphaMainnet", "GravityAlphaTestnetSepolia", "Xai", "XaiSepolia",
              "HappychainTestnet", "Syndr", "SyndrSepolia", "FilecoinMainnet", "Linea",
              "LineaGoerli", "LineaSepolia", "FilecoinCalibrationTestnet", "Gnosis", "Chiado",
              "Zora", "ZoraSepolia", "Ink", "InkSepolia", "Mantle", "MantleSepolia", "Mode",
              "ModeSepolia", "Pgn", "PgnSepolia", "Etherlink", "EtherlinkTestnet", "Degen",
              "OpBNBMainnet", "OpBNBTestnet", "Taiko", "TaikoHekla", "AutonomysNovaTestnet",
              "Flare", "FlareCoston2", "Scroll", "ScrollSepolia", "Darwinia", "Cfx",
              "CfxTestnet", "Crab", "Pulsechain", "PulsechainTestnet", "Koi", "Immutable",
              "ImmutableTestnet", "Soneium", "SoneiumMinatoTestnet", "Sonic", "SonicTestnet",
              "World", "WorldSepolia", "Unichain", "UnichainSepolia", "SignetPecorino",
              "ApeChain", "BerachainBepolia", "Berachain", "Curtis", "SuperpositionTestnet",
              "Superposition", "Monad", "MonadTestnet", "Hyperliquid", "Corn", "CornTestnet",
              "ZkSync", "ZkSyncTestnet", "AbstractTestnet", "Abstract", "Lens", "LensTestnet",
              "BinanceSmartChain", "BinanceSmartChainTestnet", "Karura", "KaruraTestnet",
              "TelosEvm", "TelosEvmTestnet", "FluentDevnet", "FluentTestnet", "Plasma",
              "MemeCore", "Formicarium", "Insectarium"},
      val |-> FALSE],
     [pat |-> {"Dev", "AnvilHardhat", "Morden", "Ropsten", "Rinkeby", "Cronos", "CronosTestnet",
              "Kovan", "Sokol", "Poa", "Moonbeam", "MoonbeamDev", "Moonriver", "Moonbase",
              "Evmos", "EvmosTestnet", "Aurora", "AuroraTestnet", "Canto", "CantoTestnet",
              "Iotex", "Core", "Merlin", "Bitlayer", "Vana", "Zeta", "Kaia", "Story", "Sei",
              "SeiTestnet", "StableMainnet", "StableTestnet", "Injective", "InjectiveTestnet",
              "Katana", "Lisk", "Fuse", "Cannon", "SkaleBase", "SkaleBaseTestnet",
              "PolkadotTestnet"},
      val |-> FALSE] >>

NamedChain_is_legacy(v) == match_self(is_legacy_arms, v)

\* NamedChain::supports_shanghai: matches!(self, ...), which is a match with the
\* listed patterns as one arm and a wildcard arm.
supports_shanghai_arms ==
  << [pat |-> {"Mainnet", "Goerli", "Sepolia", "Holesky", "Hoodi", "AnvilHardhat", "Optimism",
              "OptimismGoerli", "OptimismSepolia", "Bob", "BobSepolia", "Odyssey", "Base",
              "BaseGoerli", "BaseSepolia", "Blast", "BlastSepolia", "Celo", "CeloSepolia",
              "Fraxtal", "FraxtalTestnet", "Ink", "InkSepolia", "Gnosis", "Chiado",
              "ZoraSepolia", "Mantle", "MantleSepolia", "Mode", "ModeSepolia", "Polygon",
              "Arbitrum", "ArbitrumNova", "ArbitrumSepolia", "GravityAlphaMainnet",
              "GravityAlphaTestnetSepolia", "Xai", "XaiSepolia", "Syndr", "SyndrSepolia",
              "Etherlink", "EtherlinkTestnet", "Scroll", "ScrollSepolia", "HappychainTestnet",
              "Shimmer", "BinanceSmartChain", "BinanceSmartChainTestnet", "OpBNBMainnet",
              "OpBNBTestnet", "Taiko", "TaikoHekla", "Avalanche", "AvalancheFuji",
              "AutonomysNovaTestnet", "Acala", "AcalaMandalaTestnet", "AcalaTestnet", "Karura",
              "KaruraTestnet", "Darwinia", "Crab", "Cfx", "CfxTestnet", "Pulsechain",
              "PulsechainTestnet", "Koi", "Immutable", "ImmutableTestnet", "Soneium",
              "SoneiumMinatoTestnet", "World", "WorldSepolia", "Iotex", "Unichain",
              "UnichainSepolia", "SignetPecorino", "StableMainnet", "StableTestnet", "ApeChain",
              "Curtis", "SuperpositionTestnet", "Superposition", "Monad", "MonadTestnet",
              "Corn", "CornTestnet", "Rsk", "RskTestnet", "Berachain", "BerachainBepolia",
              "Injective", "InjectiveTestnet", "FluentDevnet", "FluentTestnet", "Cannon",
              "MemeCore", "Formicarium", "Insectarium"},
      val |-> TRUE],
     [pat |-> AnyVariant,
      val |-> FALSE] >>

\* Mutant of NamedChain_supports_shanghai: false for every legacy chain.
NamedChain_supports_shanghai_unless_legacy(v) ==
  match_self(supports_shanghai_arms, v) /\ ~NamedChain_is_legacy(v)

NamedChain_supports_shanghai(v) == match_self(supports_shanghai_arms, v)

\* NamedChain::is_testnet. The arms of its match, in order.
is_testnet_arms ==
  << [pat |-> {"Goerli", "Holesky", "Kovan", "Sepolia", "Morden", "Ropsten", "Rinkeby", "Hoodi"},
      val |-> TRUE],
     [pat |-> {"ArbitrumGoerli", "ArbitrumSepolia", "ArbitrumTestnet", "SyndrSepolia",
              "AuroraTestnet", "AvalancheFuji", "Odyssey", "BaseGoerli", "BaseSepolia",
              "BlastSepolia", "BinanceSmartChainTestnet", "CantoTestnet", "CronosTestnet",
              "CeloSepolia", "EmeraldTestnet", "EvmosTestnet", "FantomTestnet",
              "FilecoinCalibrationTestnet", "FraxtalTestnet", "HappychainTestnet",
              "LineaGoerli", "LineaSepolia", "InkSepolia", "MantleSepolia", "MoonbeamDev",
              "OptimismGoerli", "OptimismKovan", "OptimismSepolia", "BobSepolia", "PolygonAmoy",
              "ScrollSepolia", "Shimmer", "ZkSyncTestnet", "ZoraSepolia", "ModeSepolia",
              "PgnSepolia", "EtherlinkTestnet", "OpBNBTestnet", "RoninTestnet", "TaikoHekla",
              "AutonomysNovaTestnet", "FlareCoston2", "AcalaMandalaTestnet", "AcalaTestnet",
              "KaruraTestnet", "CfxTestnet", "PulsechainTestnet", "GravityAlphaTestnetSepolia",
              "XaiSepolia", "Koi", "ImmutableTestnet", "SoneiumMinatoTestnet", "WorldSepolia",
              "UnichainSepolia", "SignetPecorino", "Curtis", "TreasureTopaz", "SonicTestnet",
              "BerachainBepolia", "SuperpositionTestnet", "MonadTestnet", "RskTestnet",
              "TelosEvmTestnet", "AbstractTestnet", "LensTestnet", "SophonTestnet",
              "PolkadotTestnet", "InjectiveTestnet", "FluentDevnet", "FluentTestnet",
              "SeiTestnet", "StableTestnet", "CornTestnet", "Formicarium", "Insectarium",
              "SkaleBaseTestnet"},
      val |-> TRUE],
     [pat |-> {"Dev", "AnvilHardhat", "Cannon"},
      val |-> TRUE],
     [pat |-> {"Mainnet", "Optimism", "Arbitrum", "ArbitrumNova", "Blast", "Syndr", "Cronos",
              "Rsk", "BinanceSmartChain", "Poa", "Sokol", "Scroll", "Metis", "Gnosis",
              "Polygon", "Fantom", "Moonbeam", "Moonriver", "Moonbase", "Evmos", "Chiado",
              "Oasis", "Emerald", "Plasma", "FilecoinMainnet", "Avalanche", "Celo", "Aurora",
              "Canto", "Boba", "Base", "Fraxtal", "Ink", "Linea", "ZkSync", "Mantle",
              "GravityAlphaMainnet", "Xai", "Zora", "Pgn", "Mode", "Viction", "Elastos",
              "Degen", "OpBNBMainnet", "Ronin", "Taiko", "Flare", "Acala", "Karura", "Darwinia",
              "Cfx", "Crab", "Pulsechain", "Etherlink", "Immutable", "World", "Iotex", "Core",
              "Merlin", "Bitlayer", "ApeChain", "Vana", "Zeta", "Kaia", "Treasure", "Bob",
              "Soneium", "Sonic", "Superposition", "Berachain", "Monad", "Unichain", "TelosEvm",
              "Story", "Sei", "StableMainnet", "Hyperliquid", "Abstract", "Sophon", "Lens",
              "Corn", "Katana", "Lisk", "Fuse", "Injective", "MemeCore", "SkaleBase"},
      val |-> FALSE] >>

NamedChain_is_testnet(v) == match_self(is_testnet_arms, v)

\* NamedChain::native_currency_symbol. The arms of its match, in order; the last is
\* the wildcard.
native_currency_symbol_arms ==
  << [pat |-> {"Mainnet", "Goerli", "Holesky", "Kovan", "Sepolia", "Morden", "Ropsten",
              "Rinkeby", "Scroll", "ScrollSepolia", "Taiko", "TaikoHekla", "Unichain",
              "UnichainSepolia", "SuperpositionTestnet", "Superposition", "Abstract", "ZkSync",
              "ZkSyncTestnet", "Katana", "Lisk", "Base", "BaseGoerli", "BaseSepolia",
              "Optimism", "OptimismSepolia"},
      val |-> Some(<<"E", "T", "H">>)],
     [pat |-> {"Mantle", "MantleSepolia"},
      val |-> Some(<<"M", "N", "T">>)],
     [pat |-> {"GravityAlphaMainnet", "GravityAlphaTestnetSepolia"},
      val |-> Some(<<"G">>)],
     [pat |-> {"Celo", "CeloSepolia"},
      val |-> Some(<<"C", "E", "L", "O">>)],
     [pat |-> {"Xai", "XaiSepolia"},
      val |-> Some(<<"X", "A", "I">>)],
     [pat |-> {"HappychainTestnet"},
      val |-> Some(<<"H", "A", "P", "P", "Y">>)],
     [pat |-> {"BinanceSmartChain", "BinanceSmartChainTestnet", "OpBNBMainnet", "OpBNBTestnet"},
      val |-> Some(<<"B", "N", "B">>)],
     [pat |-> {"Etherlink", "EtherlinkTestnet"},
      val |-> Some(<<"X", "T", "Z">>)],
     [pat |-> {"Degen"},
      val |-> Some(<<"D", "E", "G", "E", "N">>)],
     [pat |-> {"Ronin", "RoninTestnet"},
      val |-> Some(<<"R", "O", "N">>)],
     [pat |-> {"Shimmer"},
      val |-> Some(<<"S", "M", "R">>)],
     [pat |-> {"Flare"},
      val |-> Some(<<"F", "L", "R">>)],
     [pat |-> {"FlareCoston2"},
      val |-> Some(<<"C", "2", "F", "L", "R">>)],
     [pat |-> {"Darwinia"},
      val |-> Some(<<"R", "I", "N", "G">>)],
     [pat |-> {"Crab"},
      val |-> Some(<<"C", "R", "A", "B">>)],
     [pat |-> {"Koi"},
      val |-> Some(<<"K", "R", "I", "N", "G">>)],
     [pat |-> {"Cfx", "CfxTestnet"},
      val |-> Some(<<"C", "F", "X">>)],
     [pat |-> {"Pulsechain", "PulsechainTestnet"},
      val |-> Some(<<"P", "L", "S">>)],
     [pat |-> {"Immutable"},
      val |-> Some(<<"I", "M", "X">>)],
     [pat |-> {"ImmutableTestnet"},
      val |-> Some(<<"t", "I", "M", "X">>)],
     [pat |-> {"World", "WorldSepolia"},
      val |-> Some(<<"W", "R", "L", "D">>)],
     [pat |-> {"Iotex"},
      val |-> Some(<<"I", "O", "T", "X">>)],
     [pat |-> {"Core"},
      val |-> Some(<<"C", "O", "R", "E">>)],
     [pat |-> {"Merlin"},
      val |-> Some(<<"B", "T", "C">>)],
     [pat |-> {"Bitlayer"},
      val |-> Some(<<"B", "T", "C">>)],
     [pat |-> {"Vana"},
      val |-> Some(<<"V", "A", "N", "A">>)],
     [pat |-> {"Zeta"},
      val |-> Some(<<"Z", "E", "T", "A">>)],
     [pat |-> {"Kaia"},
      val |-> Some(<<"K", "A", "I", "A">>)],
     [pat |-> {"Story"},
      val |-> Some(<<"I", "P">>)],
     [pat |-> {"Sei", "SeiTestnet"},
      val |-> Some(<<"S", "E", "I">>)],
     [pat |-> {"StableMainnet", "StableTestnet"},
      val |-> Some(<<"g", "U", "S", "D", "T">>)],
     [pat |-> {"ApeChain", "Curtis"},
      val |-> Some(<<"A", "P", "E">>)],
     [pat |-> {"Treasure", "TreasureTopaz"},
      val |-> Some(<<"M", "A", "G", "I", "C">>)],
     [pat |-> {"BerachainBepolia", "Berachain"},
      val |-> Some(<<"B", "E", "R", "A">>)],
     [pat |-> {"Monad", "MonadTestnet"},
      val |-> Some(<<"M", "O", "N">>)],
     [pat |-> {"Sonic", "SonicTestnet"},
      val |-> Some(<<"S">>)],
     [pat |-> {"TelosEvm", "TelosEvmTestnet"},
      val |-> Some(<<"T", "L", "O", "S">>)],
     [pat |-> {"Hyperliquid"},
      val |-> Some(<<"H", "Y", "P", "E">>)],
     [pat |-> {"SignetPecorino"},
      val |-> Some(<<"U", "S", "D", "S">>)],
     [pat |-> {"Polygon", "PolygonAmoy"},
      val |-> Some(<<"P", "O", "L">>)],
     [pat |-> {"Corn", "CornTestnet"},
      val |-> Some(<<"B", "T", "C", "N">>)],
     [pat |-> {"Sophon", "SophonTestnet"},
      val |-> Some(<<"S", "O", "P", "H">>)],
     [pat |-> {"LensTestnet"},
      val |-> Some(<<"G", "R", "A", "S", "S">>)],
     [pat |-> {"Lens"},
      val |-> Some(<<"G", "H", "O">>)],
     [pat |-> {"Rsk"},
      val |-> Some(<<"R", "B", "T", "C">>)],
     [pat |-> {"RskTestnet"},
      val |-> Some(<<"t", "R", "B", "T", "C">>)],
     [pat |-> {"Injective", "InjectiveTestnet"},
      val |-> Some(<<"I", "N", "J">>)],
     [pat |-> {"Plasma"},
      val |-> Some(<<"X", "P", "L">>)],
     [pat |-> {"MemeCore"},
      val |-> Some(<<"M">>)],
     [pat |-> {"Formicarium"},
      val |-> Some(<<"t", "M">>)],
     [pat |-> {"Insectarium"},
      val |-> Some(<<"t", "M">>)],
     [pat |-> AnyVariant,
      val |-> None] >>

NamedChain_native_currency_symbol(v) == match_self(native_currency_symbol_arms, v)

\* NamedChain::etherscan_urls: Some((API_URL, BASE_URL)) or None. The arms of its
\* match, in order.
etherscan_urls_arms ==
  << [pat |-> {"Mainnet"},
      val |-> Some(<<<<"h", "t", "t", "p", "s", ":", "/", "/", "a", "p", "i", ".", "e", "t", "h", "e", "r", "s", "c", "a", "n", ".", "i", "o", "/", "v", "2", "/", "a", "p", "i", "?", "c", "h", "a", "i", "n", "i", "d", "=", "1">>,
             <<"h", "t", "t", "p", "s", ":", "/", "/", "e", "t", "h", "e", "r", "s", "c", "a", "n", ".", "i", "o">>>>)],
     [pat |-> {"Sepolia"},
      val |-> Some(<<<<"h", "t", "t", "p", "s", ":", "/", "/", "a", "p", "i", ".", "e", "t", "h", "e", "r", "s", "c", "a", "n", ".", "i", "o", "/", "v", "2", "/", "a", "p", "i", "?", "c", "h", "a", "i", "n", "i", "d", "=", "1", "1", "1", "5", "5", "1", "1", "1">>,
             <<"h", "t", "t", "p", "s", ":", "/", "/", "s", "e", "p", "o", "l", "i", "a", ".", "e", "t", "h", "e", "r", "s", "c", "a", "n", ".", "i", "o">>>>)],
     [pat |-> {"Holesky"},
      val |-> Some(<<<<"h", "t", "t", "p", "s", ":", "/", "/", "a", "p", "i", ".", "e", "t", "h", "e", "r", "s", "c", "a", "n", ".", "i", "o", "/", "v", "2", "/", "a", "p", "i", "?", "c", "h", "a", "i", "n", "i", "d", "=", "1", "7", "0", "0", "0">>,
             <<"h", "t", "t", "p", "s", ":", "/", "/", "h", "o", "l", "e", "s", "k", "y", ".", "e", "t", "h", "e", "r", "s", "c", "a", "n", ".", "i", "o">>>>)],
     [pat |-> {"Hoodi"},
      val |-> Some(<<<<"h", "t", "t", "p", "s", ":", "/", "/", "a", "p", "i", ".", "e", "t", "h", "e", "r", "s", "c", "a", "n", ".", "i", "o", "/", "v", "2", "/", "a", "p", "i", "?", "c", "h", "a", "i", "n", "i", "d", "=", "5", "6", "0", "0", "4", "8">>,
             <<"h", "t", "t", "p", "s", ":", "/", "/", "h", "o", "o", "d", "i", ".", "e", "t", "h", "e", "r", "s", "c", "a", "n", ".", "i", "o">>>>)],
     [pat |-> {"Polygon"},
      val |-> Some(<<<<"h", "t", "t", "p", "s", ":", "/", "/", "a", "p", "i", ".", "e", "t", "h", "e", "r", "s", "c", "a", "n", ".", "i", "o", "/", "v", "2", "/", "a", "p", "i", "?", "c", "h", "a", "i", "n", "i", "d", "=", "1", "3", "7">>,
             <<"h", "t", "t", "p", "s", ":", "/", "/", "p", "o", "l", "y", "g", "o", "n", "s", "c", "a", "n", ".", "c", "o", "m">>>>)],
     [pat |-> {"PolygonAmoy"},
      val |-> Some(<<<<"h", "t", "t", "p", "s", ":", "/", "/", "a", "p", "i", ".", "e", "t", "h", "e", "r", "s", "c", "a", "n", ".", "i", "o", "/", "v", "2", "/", "a", "p", "i", "?", "c", "h", "a", "i", "n", "i", "d", "=", "8", "0", "0", "0", "2">>,
             <<"h", "t", "t", "p", "s", ":", "/", "/", "a", "m", "o", "y", ".", "p", "o", "l", "y", "g", "o", "n", "s", "c", "a", "n", ".", "c", "o", "m">>>>)],
     [pat |-> {"Avalanche"},
      val |-> Some(<<<<"h", "t", "t", "p", "s", ":", "/", "/", "a", "p", "i", ".", "e", "t", "h", "e", "r", "s", "c", "a", "n", ".", "i", "o", "/", "v", "2", "/", "a", "p", "i", "?", "c", "h", "a", "i", "n", "i", "d", "=", "4", "3", "1", "1", "4">>,
             <<"h", "t", "t", "p", "s", ":", "/", "/", "s", "n", "o", "w", "s", "c", "a", "n", ".", "x", "y", "z">>>>)],
     [pat |-> {"AvalancheFuji"},
      val |-> Some(<<<<"h", "t", "t", "p", "s", ":", "/", "/", "a", "p", "i", ".", "e", "t", "h", "e", "r", "s", "c", "a", "n", ".", "i", "o", "/", "v", "2", "/", "a", "p", "i", "?", "c", "h", "a", "i", "n", "i", "d", "=", "4", "3", "1", "1", "3">>,
             <<"h", "t", "t", "p", "s", ":", "/", "/", "t", "e", "s", "t", "n", "e", "t", ".", "s", "n", "o", "w", "s", "c", "a", "n", ".", "x", "y", "z">>>>)],
     [pat |-> {"Optimism"},
      val |-> Some(<<<<"h", "t", "t", "p", "s", ":", "/", "/", "a", "p", "i", ".", "e", "t", "h", "e", "r", "s", "c", "a", "n", ".", "i", "o", "/", "v", "2", "/", "a", "p", "i", "?", "c", "h", "a", "i", "n", "i", "d", "=", "1", "0">>,
             <<"h", "t", "t", "p", "s", ":", "/", "/", "o", "p", "t", "i", "m", "i", "s", "t", "i", "c", ".", "e", "t", "h", "e", "r", "s", "c", "a", "n", ".", "i", "o">>>>)],
     [pat |-> {"OptimismSepolia"},
      val |-> Some(<<<<"h", "t", "t", "p", "s", ":", "/", "/", "a", "p", "i", ".", "e", "t", "h", "e", "r", "s", "c", "a", "n", ".", "i", "o", "/", "v", "2", "/", "a", "p", "i", "?", "c", "h", "a", "i", "n", "i", "d", "=", "1", "1", "1", "5", "5", "4", "2", "0">>,
             <<"h", "t", "t", "p", "s", ":", "/", "/", "s", "e", "p", "o", "l", "i", "a", "-", "o", "p", "t", "i", "m", "i", "s", "m", ".", "e", "t", "h", "e", "r", "s", "c", "a", "n", ".", "i", "o">>>>)],
     [pat |-> {"Bob"},
      val |-> Some(<<<<"h", "t", "t", "p", "s", ":", "/", "/", "e", "x", "p", "l", "o", "r", "e", "r", ".", "g", "o", "b", "o", "b", ".", "x", "y", "z", "/", "a", "p", "i">>,
             <<"h", "t", "t", "p", "s", ":", "/", "/", "e", "x", "p", "l", "o", "r", "e", "r", ".", "g", "o", "b", "o", "b", ".", "x", "y", "z">>>>)],
     [pat |-> {"BobSepolia"},
      val |-> Some(<<<<"h", "t", "t", "p", "s", ":", "/", "/", "b", "o", "b", "-", "s", "e", "p", "o", "l", "i", "a", ".", "e", "x", "p", "l", "o", "r", "e", "r", ".", "g", "o", "b", "o", "b", ".", "x", "y", "z", "/", "a", "p", "i">>,
             <<"h", "t", "t", "p", "s", ":", "/", "/", "b", "o", "b", "-", "s", "e", "p", "o", "l", "i", "a", ".", "e", "x", "p", "l", "o", "r", "e", "r", ".", "g", "o", "b", "o", "b", ".", "x", "y", "z">>>>)],
     [pat |-> {"BinanceSmartChain"},
      val |-> Some(<<<<"h", "t", "t", "p", "s", ":", "/", "/", "a", "p", "i", ".", "e", "t", "h", "e", "r", "s", "c", "a", "n", ".", "i", "o", "/", "v", "2", "/", "a", "p", "i", "?", "c", "h", "a", "i", "n", "i", "d", "=", "5", "6">>,
             <<"h", "t", "t", "p", "s", ":", "/", "/", "b", "s", "c", "s", "c", "a", "n", ".", "c", "o", "m">>>>)],
     [pat |-> {"BinanceSmartChainTestnet"},
      val |-> Some(<<<<"h", "t", "t", "p", "s", ":", "/", "/", "a", "p", "i", ".", "e", "t", "h", "e", "r", "s", "c", "a", "n", ".", "i", "o", "/", "v", "2", "/", "a", "p", "i", "?", "c", "h", "a", "i", "n", "i", "d", "=", "9", "7">>,
             <<"h", "t", "t", "p", "s", ":", "/", "/", "t", "e", "s", "t", "n", "e", "t", ".", "b", "s", "c", "s", "c", "a", "n", ".", "c", "o", "m">>>>)],
     [pat |-> {"OpBNBMainnet"},
      val |-> Some(<<<<"h", "t", "t", "p", "s", ":", "/", "/", "a", "p", "i", ".", "e", "t", "h", "e", "r", "s", "c", "a", "n", ".", "i", "o", "/", "v", "2", "/", "a", "p", "i", "?", "c", "h", "a", "i", "n", "i", "d", "=", "2", "0", "4">>,
             <<"h", "t", "t", "p", "s", ":", "/", "/", "o", "p", "b", "n", "b", ".", "b", "s", "c", "s", "c", "a", "n", ".", "c", "o", "m">>>>)],
     [pat |-> {"OpBNBTestnet"},
      val |-> Some(<<<<"h", "t", "t", "p", "s", ":", "/", "/", "a", "p", "i", ".", "e", "t", "h", "e", "r", "s", "c", "a", "n", ".", "i", "o", "/", "v", "2", "/", "a", "p", "i", "?", "c", "h", "a", "i", "n", "i", "d", "=", "5", "6", "1", "1">>,
             <<"h", "t", "t", "p", "s", ":", "/", "/", "o", "p", "b", "n", "b", "-", "t", "e", "s", "t", "n", "e", "t", ".", "b", "s", "c", "s", "c", "a", "n", ".", "c", "o", "m">>>>)],
     [pat |-> {"Arbitrum"},
      val |-> Some(<<<<"h", "t", "t", "p", "s", ":", "/", "/", "a", "p", "i", ".", "e", "t", "h", "e", "r", "s", "c", "a", "n", ".", "i", "o", "/", "v", "2", "/", "a", "p", "i", "?", "c", "h", "a", "i", "n", "i", "d", "=", "4", "2", "1", "6", "1">>,
             <<"h", "t", "t", "p", "s", ":", "/", "/", "a", "r", "b", "i", "s", "c", "a", "n", ".", "i", "o">>>>)],
     [pat |-> {"ArbitrumSepolia"},
      val |-> Some(<<<<"h", "t", "t", "p", "s", ":", "/", "/", "a", "p", "i", ".", "e", "t", "h", "e", "r", "s", "c", "a", "n", ".", "i", "o", "/", "v", "2", "/", "a", "p", "i", "?", "c", "h", "a", "i", "n", "i", "d", "=", "4", "2", "1", "6", "1", "4">>,
             <<"h", "t", "t", "p", "s", ":", "/", "/", "s", "e", "p", "o", "l", "i", "a", ".", "a", "r", "b", "i", "s", "c", "a", "n", ".", "i", "o">>>>)],
     [pat |-> {"ArbitrumNova"},
      val |-> Some(<<<<"h", "t", "t", "p", "s", ":", "/", "/", "a", "p", "i", ".", "e", "t", "h", "e", "r", "s", "c", "a", "n", ".", "i", "o", "/", "v", "2", "/", "a", "p", "i", "?", "c", "h", "a", "i", "n", "i", "d", "=", "4", "2", "1", "7", "0">>,
             <<"h", "t", "t", "p", "s", ":", "/", "/", "n", "o", "v", "a", ".", "a", "r", "b", "i", "s", "c", "a", "n", ".", "i", "o">>>>)],
     [pat |-> {"GravityAlphaMainnet"},
      val |-> Some(<<<<"h", "t", "t", "p", "s", ":", "/", "/", "e", "x", "p", "l", "o", "r", "e", "r", ".", "g", "r", "a", "v", "i", "t", "y", ".", "x", "y", "z", "/", "a", "p", "i">>,
             <<"h", "t", "t", "p", "s", ":", "/", "/", "e", "x", "p", "l", "o", "r", "e", "r", ".", "g", "r", "a", "v", "i", "t", "y", ".", "x", "y", "z">>>>)],
     [pat |-> {"GravityAlphaTestnetSepolia"},
      val |-> Some(<<<<"h", "t", "t", "p", "s", ":", "/", "/", "e", "x", "p", "l", "o", "r", "e", "r", "-", "s", "e", "p", "o", "l", "i", "a", ".", "g", "r", "a", "v", "i", "t", "y", ".", "x", "y", "z", "/", "a", "p", "i">>,
             <<"h", "t", "t", "p", "s", ":", "/", "/", "e", "x", "p", "l", "o", "r", "e", "r", "-", "s", "e", "p", "o", "l", "i", "a", ".", "g", "r", "a", "v", "i", "t", "y", ".", "x", "y", "z">>>>)],
     [pat |-> {"HappychainTestnet"},
      val |-> Some(<<<<"h", "t", "t", "p", "s", ":", "/", "/", "e", "x", "p", "l", "o", "r", "e", "r", ".", "t", "e", "s", "t", "n", "e", "t", ".", "h", "a", "p", "p", "y", ".", "t", "e", "c", "h", "/", "a", "p", "i">>,
             <<"h", "t", "t", "p", "s", ":", "/", "/", "e", "x", "p", "l", "o", "r", "e", "r", ".", "t", "e", "s", "t", "n", "e", "t", ".", "h", "a", "p", "p", "y", ".", "t", "e", "c", "h">>>>)],
     [pat |-> {"XaiSepolia"},
      val |-> Some(<<<<"h", "t", "t", "p", "s", ":", "/", "/", "a", "p", "i", ".", "e", "t", "h", "e", "r", "s", "c", "a", "n", ".", "i", "o", "/", "v", "2", "/", "a", "p", "i", "?", "c", "h", "a", "i", "n", "i", "d", "=", "3", "7", "7", "1", "4", "5", "5", "5", "4", "2", "9">>,
             <<"h", "t", "t", "p", "s", ":", "/", "/", "s", "e", "p", "o", "l", "i", "a", ".", "x", "a", "i", "s", "c", "a", "n", ".", "i", "o">>>>)],
     [pat |-> {"Xai"},
      val |-> Some(<<<<"h", "t", "t", "p", "s", ":", "/", "/", "a", "p", "i", ".", "e", "t", "h", "e", "r", "s", "c", "a", "n", ".", "i", "o", "/", "v", "2", "/", "a", "p", "i", "?", "c", "h", "a", "i", "n", "i", "d", "=", "6", "6", "0", "2", "7", "9">>,
             <<"h", "t", "t", "p", "s", ":", "/", "/", "x", "a", "i", "s", "c", "a", "n", ".", "i", "o">>>>)],
     [pat |-> {"Syndr"},
      val |-> Some(<<<<"h", "t", "t", "p", "s", ":", "/", "/", "e", "x", "p", "l", "o", "r", "e", "r", ".", "s", "y", "n", "d", "r", ".", "c", "o", "m", "/", "a", "p", "i">>,
             <<"h", "t", "t", "p", "s", ":", "/", "/", "e", "x", "p", "l", "o", "r", "e", "r", ".", "s", "y", "n", "d", "r", ".", "c", "o", "m">>>>)],
     [pat |-> {"SyndrSepolia"},
      val |-> Some(<<<<"h", "t", "t", "p", "s", ":", "/", "/", "s", "e", "p", "o", "l", "i", "a", "-", "e", "x", "p", "l", "o", "r", "e", "r", ".", "s", "y", "n", "d", "r", ".", "c", "o", "m", "/", "a", "p", "i">>,
             <<"h", "t", "t", "p", "s", ":", "/", "/", "s", "e", "p", "o", "l", "i", "a", "-", "e", "x", "p", "l", "o", "r", "e", "r", ".", "s", "y", "n", "d", "r", ".", "c", "o", "m">>>>)],
     [pat |-> {"Cronos"},
      val |-> Some(<<<<"h", "t", "t", "p", "s", ":", "/", "/", "a", "p", "i", ".", "e", "t", "h", "e", "r", "s", "c", "a", "n", ".", "i", "o", "/", "v", "2", "/", "a", "p", "i", "?", "c", "h", "a", "i", "n", "i", "d", "=", "2", "5">>,
             <<"h", "t", "t", "p", "s", ":", "/", "/", "c", "r", "o", "n", "o", "s", "c", "a", "n", ".", "c", "o", "m">>>>)],
     [pat |-> {"Moonbeam"},
      val |-> Some(<<<<"h", "t", "t", "p", "s", ":", "/", "/", "a", "p", "i", ".", "e", "t", "h", "e", "r", "s", "c", "a", "n", ".", "i", "o", "/", "v", "2", "/", "a", "p", "i", "?", "c", "h", "a", "i", "n", "i", "d", "=", "1", "2", "8", "4">>,
             <<"h", "t", "t", "p", "s", ":", "/", "/", "m", "o", "o", "n", "b", "e", "a", "m", ".", "m", "o", "o", "n", "s", "c", "a", "n", ".", "i", "o">>>>)],
     [pat |-> {"Moonbase"},
      val |-> Some(<<<<"h", "t", "t", "p", "s", ":", "/", "/", "a", "p", "i", ".", "e", "t", "h", "e", "r", "s", "c", "a", "n", ".", "i", "o", "/", "v", "2", "/", "a", "p", "i", "?", "c", "h", "a", "i", "n", "i", "d", "=", "1", "2", "8", "7">>,
             <<"h", "t", "t", "p", "s", ":", "/", "/", "m", "o", "o", "n", "b", "a", "s", "e", ".", "m", "o", "o", "n", "s", "c", "a", "n", ".", "i", "o">>>>)],
     [pat |-> {"Moonriver"},
      val |-> Some(<<<<"h", "t", "t", "p", "s", ":", "/", "/", "a", "p", "i", ".", "e", "t", "h", "e", "r", "s", "c", "a", "n", ".", "i", "o", "/", "v", "2", "/", "a", "p", "i", "?", "c", "h", "a", "i", "n", "i", "d", "=", "1", "2", "8", "5">>,
             <<"h", "t", "t", "p", "s", ":", "/", "/", "m", "o", "o", "n", "r", "i", "v", "e", "r", ".", "m", "o", "o", "n", "s", "c", "a", "n", ".", "i", "o">>>>)],
     [pat |-> {"Gnosis"},
      val |-> Some(<<<<"h", "t", "t", "p", "s", ":", "/", "/", "a", "p", "i", ".", "e", "t", "h", "e", "r", "s", "c", "a", "n", ".", "i", "o", "/", "v", "2", "/", "a", "p", "i", "?", "c", "h", "a", "i", "n", "i", "d", "=", "1", "0", "0">>,
             <<"h", "t", "t", "p", "s", ":", "/", "/", "g", "n", "o", "s", "i", "s", "s", "c", "a", "n", ".", "i", "o">>>>)],
     [pat |-> {"Scroll"},
      val |-> Some(<<<<"h", "t", "t", "p", "s", ":", "/", "/", "a", "p", "i", ".", "e", "t", "h", "e", "r", "s", "c", "a", "n", ".", "i", "o", "/", "v", "2", "/", "a", "p", "i", "?", "c", "h", "a", "i", "n", "i", "d", "=", "5", "3", "4", "3", "5", "2">>,
             <<"h", "t", "t", "p", "s", ":", "/", "/", "s", "c", "r", "o", "l", "l", "s", "c", "a", "n", ".", "c", "o", "m">>>>)],
     [pat |-> {"ScrollSepolia"},
      val |-> Some(<<<<"h", "t", "t", "p", "s", ":", "/", "/", "a", "p", "i", ".", "e", "t", "h", "e", "r", "s", "c", "a", "n", ".", "i", "o", "/", "v", "2", "/", "a", "p", "i", "?", "c", "h", "a", "i", "n", "i", "d", "=", "5", "3", "4", "3", "5", "1">>,
             <<"h", "t", "t", "p", "s", ":", "/", "/", "s", "e", "p", "o", "l", "i", "a", ".", "s", "c", "r", "o", "l", "l", "s", "c", "a", "n", ".", "c", "o", "m">>>>)],
     [pat |-> {"Ink"},
      val |-> Some(<<<<"h", "t", "t", "p", "s", ":", "/", "/", "e", "x", "p", "l", "o", "r", "e", "r", ".", "i", "n", "k", "o", "n", "c", "h", "a", "i", "n", ".", "c", "o", "m", "/", "a", "p", "i", "/", "v", "2">>,
             <<"h", "t", "t", "p", "s", ":", "/", "/", "e", "x", "p", "l", "o", "r", "e", "r", ".", "i", "n", "k", "o", "n", "c", "h", "a", "i", "n", ".", "c", "o", "m">>>>)],
     [pat |-> {"InkSepolia"},
      val |-> Some(<<<<"h", "t", "t", "p", "s", ":", "/", "/", "e", "x", "p", "l", "o", "r", "e", "r", "-", "s", "e", "p", "o", "l", "i", "a", ".", "i", "n", "k", "o", "n", "c", "h", "a", "i", "n", ".", "c", "o", "m", "/", "a", "p", "i", "/", "v", "2">>,
             <<"h", "t", "t", "p", "s", ":", "/", "/", "e", "x", "p", "l", "o", "r", "e", "r", "-", "s", "e", "p", "o", "l", "i", "a", ".", "i", "n", "k", "o", "n", "c", "h", "a", "i", "n", ".", "c", "o", "m">>>>)],
     [pat |-> {"Shimmer"},
      val |-> Some(<<<<"h", "t", "t", "p", "s", ":", "/", "/", "e", "x", "p", "l", "o", "r", "e", "r", ".", "e", "v", "m", ".", "s", "h", "i", "m", "m", "e", "r", ".", "n", "e", "t", "w", "o", "r", "k", "/", "a", "p", "i">>,
             <<"h", "t", "t", "p", "s", ":", "/", "/", "e", "x", "p", "l", "o", "r", "e", "r", ".", "e", "v", "m", ".", "s", "h", "i", "m", "m", "e", "r", ".", "n", "e", "t", "w", "o", "r", "k">>>>)],
     [pat |-> {"Metis"},
      val |-> Some(<<<<"h", "t", "t", "p", "s", ":", "/", "/", "a", "p", "i", ".", "r", "o", "u", "t", "e", "s", "c", "a", "n", ".", "i", "o", "/", "v", "2", "/", "n", "e", "t", "w", "o", "r", "k", "/", "m", "a", "i", "n", "n", "e", "t", "/", "e", "v", "m", "/", "1", "0", "8", "8", "/", "e", "t", "h", "e", "r", "s", "c", "a", "n">>,
             <<"h", "t", "t", "p", "s", ":", "/", "/", "e", "x", "p", "l", "o", "r", "e", "r", ".", "m", "e", "t", "i", "s", ".", "i", "o">>>>)],
     [pat |-> {"Chiado"},
      val |-> Some(<<<<"h", "t", "t", "p", "s", ":", "/", "/", "g", "n", "o", "s", "i", "s", "-", "c", "h", "i", "a", "d", "o", ".", "b", "l", "o", "c", "k", "s", "c", "o", "u", "t", ".", "c", "o", "m", "/", "a", "p", "i">>,
             <<"h", "t", "t", "p", "s", ":", "/", "/", "g", "n", "o", "s", "i", "s", "-", "c", "h", "i", "a", "d", "o", ".", "b", "l", "o", "c", "k", "s", "c", "o", "u", "t", ".", "c", "o", "m">>>>)],
     [pat |-> {"Plasma"},
      val |-> Some(<<<<"h", "t", "t", "p", "s", ":", "/", "/", "a", "p", "i", ".", "r", "o", "u", "t", "e", "s", "c", "a", "n", ".", "i", "o", "/", "v", "2", "/", "n", "e", "t", "w", "o", "r", "k", "/", "m", "a", "i", "n", "n", "e", "t", "/", "e", "v", "m", "/", "9", "7", "4", "5", "/", "e", "t", "h", "e", "r", "s", "c", "a", "n", "/", "a", "p", "i">>,
             <<"h", "t", "t", "p", "s", ":", "/", "/", "p", "l", "a", "s", "m", "a", "s", "c", "a", "n", ".", "t", "o">>>>)],
     [pat |-> {"FilecoinCalibrationTestnet"},
      val |-> Some(<<<<"h", "t", "t", "p", "s", ":", "/", "/", "a", "p", "i", ".", "c", "a", "l", "i", "b", "r", "a", "t", "i", "o", "n", ".", "n", "o", "d", "e", ".", "g", "l", "i", "f", ".", "i", "o", "/", "r", "p", "c", "/", "v", "1">>,
             <<"h", "t", "t", "p", "s", ":", "/", "/", "c", "a", "l", "i", "b", "r", "a", "t", "i", "o", "n", ".", "f", "i", "l", "f", "o", "x", ".", "i", "n", "f", "o", "/", "e", "n">>>>)],
     [pat |-> {"Rsk"},
      val |-> Some(<<<<"h", "t", "t", "p", "s", ":", "/", "/", "b", "l", "o", "c", "k", "s", "c", "o", "u", "t", ".", "c", "o", "m", "/", "r", "s", "k", "/", "m", "a", "i", "n", "n", "e", "t", "/", "a", "p", "i">>,
             <<"h", "t", "t", "p", "s", ":", "/", "/", "b", "l", "o", "c", "k", "s", "c", "o", "u", "t", ".", "c", "o", "m", "/", "r", "s", "k", "/", "m", "a", "i", "n", "n", "e", "t">>>>)],
     [pat |-> {"RskTestnet"},
      val |-> Some(<<<<"h", "t", "t", "p", "s", ":", "/", "/", "r", "o", "o", "t", "s", "t", "o", "c", "k", "-", "t", "e", "s", "t", "n", "e", "t", ".", "b", "l", "o", "c", "k", "s", "c", "o", "u", "t", ".", "c", "o", "m", "/", "a", "p", "i">>,
             <<"h", "t", "t", "p", "s", ":", "/", "/", "r", "o", "o", "t", "s", "t", "o", "c", "k", "-", "t", "e", "s", "t", "n", "e", "t", ".", "b", "l", "o", "c", "k", "s", "c", "o", "u", "t", ".", "c", "o", "m">>>>)],
     [pat |-> {"Emerald"},
      val |-> Some(<<<<"h", "t", "t", "p", "s", ":", "/", "/", "e", "x", "p", "l", "o", "r", "e", "r", ".", "e", "m", "e", "r", "a", "l", "d", ".", "o", "a", "s", "i", "s", ".", "d", "e", "v", "/", "a", "p", "i">>,
             <<"h", "t", "t", "p", "s", ":", "/", "/", "e", "x", "p", "l", "o", "r", "e", "r", ".", "e", "m", "e", "r", "a", "l", "d", ".", "o", "a", "s", "i", "s", ".", "d", "e", "v">>>>)],
     [pat |-> {"EmeraldTestnet"},
      val |-> Some(<<<<"h", "t", "t", "p", "s", ":", "/", "/", "t", "e", "s", "t", "n", "e", "t", ".", "e", "x", "p", "l", "o", "r", "e", "r", ".", "e", "m", "e", "r", "a", "l", "d", ".", "o", "a", "s", "i", "s", ".", "d", "e", "v", "/", "a", "p", "i">>,
             <<"h", "t", "t", "p", "s", ":", "/", "/", "t", "e", "s", "t", "n", "e", "t", ".", "e", "x", "p", "l", "o", "r", "e", "r", ".", "e", "m", "e", "r", "a", "l", "d", ".", "o", "a", "s", "i", "s", ".", "d", "e", "v">>>>)],
     [pat |-> {"Aurora"},
      val |-> Some(<<<<"h", "t", "t", "p", "s", ":", "/", "/", "a", "p", "i", ".", "a", "u", "r", "o", "r", "a", "s", "c", "a", "n", ".", "d", "e", "v", "/", "a", "p", "i">>,
             <<"h", "t", "t", "p", "s", ":", "/", "/", "a", "u", "r", "o", "r", "a", "s", "c", "a", "n", ".", "d", "e", "v">>>>)],
     [pat |-> {"AuroraTestnet"},
      val |-> Some(<<<<"h", "t", "t", "p", "s", ":", "/", "/", "t", "e", "s", "t", "n", "e", "t", ".", "a", "u", "r", "o", "r", "a", "s", "c", "a", "n", ".", "d", "e", "v", "/", "a", "p", "i">>,
             <<"h", "t", "t", "p", "s", ":", "/", "/", "t", "e", "s", "t", "n", "e", "t", ".", "a", "u", "r", "o", "r", "a", "s", "c", "a", "n", ".", "d", "e", "v">>>>)],
     [pat |-> {"Celo"},
      val |-> Some(<<<<"h", "t", "t", "p", "s", ":", "/", "/", "a", "p", "i", ".", "e", "t", "h", "e", "r", "s", "c", "a", "n", ".", "i", "o", "/", "v", "2", "/", "a", "p", "i", "?", "c", "h", "a", "i", "n", "i", "d", "=", "4", "2", "2", "2", "0">>,
             <<"h", "t", "t", "p", "s", ":", "/", "/", "c", "e", "l", "o", "s", "c", "a", "n", ".", "i", "o">>>>)],
     [pat |-> {"CeloSepolia"},
      val |-> Some(<<<<"h", "t", "t", "p", "s", ":", "/", "/", "a", "p", "i", ".", "e", "t", "h", "e", "r", "s", "c", "a", "n", ".", "i", "o", "/", "v", "2", "/", "a", "p", "i", "?", "c", "h", "a", "i", "n", "i", "d", "=", "1", "1", "1", "4", "2", "2", "2", "0">>,
             <<"h", "t", "t", "p", "s", ":", "/", "/", "s", "e", "p", "o", "l", "i", "a", ".", "c", "e", "l", "o", "s", "c", "a", "n", ".", "i", "o">>>>)],
     [pat |-> {"Boba"},
      val |-> Some(<<<<"h", "t", "t", "p", "s", ":", "/", "/", "a", "p", "i", ".", "b", "o", "b", "a", "s", "c", "a", "n", ".", "c", "o", "m", "/", "a", "p", "i">>,
             <<"h", "t", "t", "p", "s", ":", "/", "/", "b", "o", "b", "a", "s", "c", "a", "n", ".", "c", "o", "m">>>>)],
     [pat |-> {"Base"},
      val |-> Some(<<<<"h", "t", "t", "p", "s", ":", "/", "/", "a", "p", "i", ".", "e", "t", "h", "e", "r", "s", "c", "a", "n", ".", "i", "o", "/", "v", "2", "/", "a", "p", "i", "?", "c", "h", "a", "i", "n", "i", "d", "=", "8", "4", "5", "3">>,
             <<"h", "t", "t", "p", "s", ":", "/", "/", "b", "a", "s", "e", "s", "c", "a", "n", ".", "o", "r", "g">>>>)],
     [pat |-> {"BaseSepolia"},
      val |-> Some(<<<<"h", "t", "t", "p", "s", ":", "/", "/", "a", "p", "i", ".", "e", "t", "h", "e", "r", "s", "c", "a", "n", ".", "i", "o", "/", "v", "2", "/", "a", "p", "i", "?", "c", "h", "a", "i", "n", "i", "d", "=", "8", "4", "5", "3", "2">>,
             <<"h", "t", "t", "p", "s", ":", "/", "/", "s", "e", "p", "o", "l", "i", "a", ".", "b", "a", "s", "e", "s", "c", "a", "n", ".", "o", "r", "g">>>>)],
     [pat |-> {"Fraxtal"},
      val |-> Some(<<<<"h", "t", "t", "p", "s", ":", "/", "/", "a", "p", "i", ".", "e", "t", "h", "e", "r", "s", "c", "a", "n", ".", "i", "o", "/", "v", "2", "/", "a", "p", "i", "?", "c", "h", "a", "i", "n", "i", "d", "=", "2", "5", "2">>,
             <<"h", "t", "t", "p", "s", ":", "/", "/", "f", "r", "a", "x", "s", "c", "a", "n", ".", "c", "o", "m">>>>)],
     [pat |-> {"FraxtalTestnet"},
      val |-> Some(<<<<"h", "t", "t", "p", "s", ":", "/", "/", "a", "p", "i", ".", "e", "t", "h", "e", "r", "s", "c", "a", "n", ".", "i", "o", "/", "v", "2", "/", "a", "p", "i", "?", "c", "h", "a", "i", "n", "i", "d", "=", "2", "5", "2", "2">>,
             <<"h", "t", "t", "p", "s", ":", "/", "/", "h", "o", "l", "e", "s", "k", "y", ".", "f", "r", "a", "x", "s", "c", "a", "n", ".", "c", "o", "m">>>>)],
     [pat |-> {"Blast"},
      val |-> Some(<<<<"h", "t", "t", "p", "s", ":", "/", "/", "a", "p", "i", ".", "e", "t", "h", "e", "r", "s", "c", "a", "n", ".", "i", "o", "/", "v", "2", "/", "a", "p", "i", "?", "c", "h", "a", "i", "n", "i", "d", "=", "8", "1", "4", "5", "7">>,
             <<"h", "t", "t", "p", "s", ":", "/", "/", "b", "l", "a", "s", "t", "s", "c", "a", "n", ".", "i", "o">>>>)],
     [pat |-> {"BlastSepolia"},
      val |-> Some(<<<<"h", "t", "t", "p", "s", ":", "/", "/", "a", "p", "i", ".", "e", "t", "h", "e", "r", "s", "c", "a", "n", ".", "i", "o", "/", "v", "2", "/", "a", "p", "i", "?", "c", "h", "a", "i", "n", "i", "d", "=", "1", "6", "8", "5", "8", "7", "7", "7", "3">>,
             <<"h", "t", "t", "p", "s", ":", "/", "/", "s", "e", "p", "o", "l", "i", "a", ".", "b", "l", "a", "s", "t", "s", "c", "a", "n", ".", "i", "o">>>>)],
     [pat |-> {"ZkSync"},
      val |-> Some(<<<<"h", "t", "t", "p", "s", ":", "/", "/", "a", "p", "i", ".", "e", "t", "h", "e", "r", "s", "c", "a", "n", ".", "i", "o", "/", "v", "2", "/", "a", "p", "i", "?", "c", "h", "a", "i", "n", "i", "d", "=", "3", "2", "4">>,
             <<"h", "t", "t", "p", "s", ":", "/", "/", "e", "r", "a", ".", "z", "k", "s", "y", "n", "c", ".", "n", "e", "t", "w", "o", "r", "k">>>>)],
     [pat |-> {"ZkSyncTestnet"},
      val |-> Some(<<<<"h", "t", "t", "p", "s", ":", "/", "/", "a", "p", "i", ".", "e", "t", "h", "e", "r", "s", "c", "a", "n", ".", "i", "o", "/", "v", "2", "/", "a", "p", "i", "?", "c", "h", "a", "i", "n", "i", "d", "=", "3", "0", "0">>,
             <<"h", "t", "t", "p", "s", ":", "/", "/", "s", "e", "p", "o", "l", "i", "a", "-", "e", "r", "a", ".", "z", "k", "s", "y", "n", "c", ".", "n", "e", "t", "w", "o", "r", "k">>>>)],
     [pat |-> {"Linea"},
      val |-> Some(<<<<"h", "t", "t", "p", "s", ":", "/", "/", "a", "p", "i", ".", "e", "t", "h", "e", "r", "s", "c", "a", "n", ".", "i", "o", "/", "v", "2", "/", "a", "p", "i", "?", "c", "h", "a", "i", "n", "i", "d", "=", "5", "9", "1", "4", "4">>,
             <<"h", "t", "t", "p", "s", ":", "/", "/", "l", "i", "n", "e", "a", "s", "c", "a", "n", ".", "b", "u", "i", "l", "d">>>>)],
     [pat |-> {"LineaSepolia"},
      val |-> Some(<<<<"h", "t", "t", "p", "s", ":", "/", "/", "a", "p", "i", ".", "e", "t", "h", "e", "r", "s", "c", "a", "n", ".", "i", "o", "/", "v", "2", "/", "a", "p", "i", "?", "c", "h", "a", "i", "n", "i", "d", "=", "5", "9", "1", "4", "1">>,
             <<"h", "t", "t", "p", "s", ":", "/", "/", "s", "e", "p", "o", "l", "i", "a", ".", "l", "i", "n", "e", "a", "s", "c", "a", "n", ".", "b", "u", "i", "l", "d">>>>)],
     [pat |-> {"Mantle"},
      val |-> Some(<<<<"h", "t", "t", "p", "s", ":", "/", "/", "a", "p", "i", ".", "e", "t", "h", "e", "r", "s", "c", "a", "n", ".", "i", "o", "/", "v", "2", "/", "a", "p", "i", "?", "c", "h", "a", "i", "n", "i", "d", "=", "5", "0", "0", "0">>,
             <<"h", "t", "t", "p", "s", ":", "/", "/", "m", "a", "n", "t", "l", "e", "s", "c", "a", "n", ".", "x", "y", "z">>>>)],
     [pat |-> {"MantleSepolia"},
      val |-> Some(<<<<"h", "t", "t", "p", "s", ":", "/", "/", "a", "p", "i", ".", "e", "t", "h", "e", "r", "s", "c", "a", "n", ".", "i", "o", "/", "v", "2", "/", "a", "p", "i", "?", "c", "h", "a", "i", "n", "i", "d", "=", "5", "0", "0", "3">>,
             <<"h", "t", "t", "p", "s", ":", "/", "/", "s", "e", "p", "o", "l", "i", "a", ".", "m", "a", "n", "t", "l", "e", "s", "c", "a", "n", ".", "x", "y", "z">>>>)],
     [pat |-> {"Viction"},
      val |-> Some(<<<<"h", "t", "t", "p", "s", ":", "/", "/", "w", "w", "w", ".", "v", "i", "c", "s", "c", "a", "n", ".", "x", "y", "z", "/", "a", "p", "i">>,
             <<"h", "t", "t", "p", "s", ":", "/", "/", "w", "w", "w", ".", "v", "i", "c", "s", "c", "a", "n", ".", "x", "y", "z">>>>)],
     [pat |-> {"Zora"},
      val |-> Some(<<<<"h", "t", "t", "p", "s", ":", "/", "/", "e", "x", "p", "l", "o", "r", "e", "r", ".", "z", "o", "r", "a", ".", "e", "n", "e", "r", "g", "y", "/", "a", "p", "i">>,
             <<"h", "t", "t", "p", "s", ":", "/", "/", "e", "x", "p", "l", "o", "r", "e", "r", ".", "z", "o", "r", "a", ".", "e", "n", "e", "r", "g", "y">>>>)],
     [pat |-> {"ZoraSepolia"},
      val |-> Some(<<<<"h", "t", "t", "p", "s", ":", "/", "/", "s", "e", "p", "o", "l", "i", "a", ".", "e", "x", "p", "l", "o", "r", "e", "r", ".", "z", "o", "r", "a", ".", "e", "n", "e", "r", "g", "y", "/", "a", "p", "i">>,
             <<"h", "t", "t", "p", "s", ":", "/", "/", "s", "e", "p", "o", "l", "i", "a", ".", "e", "x", "p", "l", "o", "r", "e", "r", ".", "z", "o", "r", "a", ".", "e", "n", "e", "r", "g", "y">>>>)],
     [pat |-> {"Mode"},
      val |-> Some(<<<<"h", "t", "t", "p", "s", ":", "/", "/", "e", "x", "p", "l", "o", "r", "e", "r", ".", "m", "o", "d", "e", ".", "n", "e", "t", "w", "o", "r", "k", "/", "a", "p", "i">>,
             <<"h", "t", "t", "p", "s", ":", "/", "/", "e", "x", "p", "l", "o", "r", "e", "r", ".", "m", "o", "d", "e", ".", "n", "e", "t", "w", "o", "r", "k">>>>)],
     [pat |-> {"ModeSepolia"},
      val |-> Some(<<<<"h", "t", "t", "p", "s", ":", "/", "/", "s", "e", "p", "o", "l", "i", "a", ".", "e", "x", "p", "l", "o", "r", "e", "r", ".", "m", "o", "d", "e", ".", "n", "e", "t", "w", "o", "r", "k", "/", "a", "p", "i">>,
             <<"h", "t", "t", "p", "s", ":", "/", "/", "s", "e", "p", "o", "l", "i", "a", ".", "e", "x", "p", "l", "o", "r", "e", "r", ".", "m", "o", "d", "e", ".", "n", "e", "t", "w", "o", "r", "k">>>>)],
     [pat |-> {"Elastos"},
      val |-> Some(<<<<"h", "t", "t", "p", "s", ":", "/", "/", "e", "s", "c", ".", "e", "l", "a", "s", "t", "o", "s", ".", "i", "o", "/", "a", "p", "i">>,
             <<"h", "t", "t", "p", "s", ":", "/", "/", "e", "s", "c", ".", "e", "l", "a", "s", "t", "o", "s", ".", "i", "o">>>>)],
     [pat |-> {"Etherlink"},
      val |-> Some(<<<<"h", "t", "t", "p", "s", ":", "/", "/", "e", "x", "p", "l", "o", "r", "e", "r", ".", "e", "t", "h", "e", "r", "l", "i", "n", "k", ".", "c", "o", "m", "/", "a", "p", "i">>,
             <<"h", "t", "t", "p", "s", ":", "/", "/", "e", "x", "p", "l", "o", "r", "e", "r", ".", "e", "t", "h", "e", "r", "l", "i", "n", "k", ".", "c", "o", "m">>>>)],
     [pat |-> {"EtherlinkTestnet"},
      val |-> Some(<<<<"h", "t", "t", "p", "s", ":", "/", "/", "t", "e", "s", "t", "n", "e", "t", ".", "e", "x", "p", "l", "o", "r", "e", "r", ".", "e", "t", "h", "e", "r", "l", "i", "n", "k", ".", "c", "o", "m", "/", "a", "p", "i">>,
             <<"h", "t", "t", "p", "s", ":", "/", "/", "t", "e", "s", "t", "n", "e", "t", ".", "e", "x", "p", "l", "o", "r", "e", "r", ".", "e", "t", "h", "e", "r", "l", "i", "n", "k", ".", "c", "o", "m">>>>)],
     [pat |-> {"Degen"},
      val |-> Some(<<<<"h", "t", "t", "p", "s", ":", "/", "/", "e", "x", "p", "l", "o", "r", "e", "r", ".", "d", "e", "g", "e", "n", ".", "t", "i", "p", "s", "/", "a", "p", "i">>,
             <<"h", "t", "t", "p", "s", ":", "/", "/", "e", "x", "p", "l", "o", "r", "e", "r", ".", "d", "e", "g", "e", "n", ".", "t", "i", "p", "s">>>>)],
     [pat |-> {"Ronin"},
      val |-> Some(<<<<"h", "t", "t", "p", "s", ":", "/", "/", "s", "k", "y", "n", "e", "t", "-", "a", "p", "i", ".", "r", "o", "n", "i", "n", "c", "h", "a", "i", "n", ".", "c", "o", "m", "/", "r", "o", "n", "i", "n">>,
             <<"h", "t", "t", "p", "s", ":", "/", "/", "a", "p", "p", ".", "r", "o", "n", "i", "n", "c", "h", "a", "i", "n", ".", "c", "o", "m">>>>)],
     [pat |-> {"RoninTestnet"},
      val |-> Some(<<<<"h", "t", "t", "p", "s", ":", "/", "/", "a", "p", "i", "-", "g", "a", "t", "e", "w", "a", "y", ".", "s", "k", "y", "m", "a", "v", "i", "s", ".", "c", "o", "m", "/", "r", "p", "c", "/", "t", "e", "s", "t", "n", "e", "t">>,
             <<"h", "t", "t", "p", "s", ":", "/", "/", "s", "a", "i", "g", "o", "n", "-", "a", "p", "p", ".", "r", "o", "n", "i", "n", "c", "h", "a", "i", "n", ".", "c", "o", "m">>>>)],
     [pat |-> {"Taiko"},
      val |-> Some(<<<<"h", "t", "t", "p", "s", ":", "/", "/", "a", "p", "i", ".", "e", "t", "h", "e", "r", "s", "c", "a", "n", ".", "i", "o", "/", "v", "2", "/", "a", "p", "i", "?", "c", "h", "a", "i", "n", "i", "d", "=", "1", "6", "7", "0", "0", "0">>,
             <<"h", "t", "t", "p", "s", ":", "/", "/", "t", "a", "i", "k", "o", "s", "c", "a", "n", ".", "i", "o">>>>)],
     [pat |-> {"TaikoHekla"},
      val |-> Some(<<<<"h", "t", "t", "p", "s", ":", "/", "/", "a", "p", "i", ".", "e", "t", "h", "e", "r", "s", "c", "a", "n", ".", "i", "o", "/", "v", "2", "/", "a", "p", "i", "?", "c", "h", "a", "i", "n", "i", "d", "=", "1", "6", "7", "0", "0", "9">>,
             <<"h", "t", "t", "p", "s", ":", "/", "/", "h", "e", "k", "l", "a", ".", "t", "a", "i", "k", "o", "s", "c", "a", "n", ".", "i", "o">>>>)],
     [pat |-> {"Flare"},
      val |-> Some(<<<<"h", "t", "t", "p", "s", ":", "/", "/", "f", "l", "a", "r", "e", "-", "e", "x", "p", "l", "o", "r", "e", "r", ".", "f", "l", "a", "r", "e", ".", "n", "e", "t", "w", "o", "r", "k", "/", "a", "p", "i">>,
             <<"h", "t", "t", "p", "s", ":", "/", "/", "f", "l", "a", "r", "e", "-", "e", "x", "p", "l", "o", "r", "e", "r", ".", "f", "l", "a", "r", "e", ".", "n", "e", "t", "w", "o", "r", "k">>>>)],
     [pat |-> {"FlareCoston2"},
      val |-> Some(<<<<"h", "t", "t", "p", "s", ":", "/", "/", "c", "o", "s", "t", "o", "n", "2", "-", "e", "x", "p", "l", "o", "r", "e", "r", ".", "f", "l", "a", "r", "e", ".", "n", "e", "t", "w", "o", "r", "k", "/", "a", "p", "i">>,
             <<"h", "t", "t", "p", "s", ":", "/", "/", "c", "o", "s", "t", "o", "n", "2", "-", "e", "x", "p", "l", "o", "r", "e", "r", ".", "f", "l", "a", "r", "e", ".", "n", "e", "t", "w", "o", "r", "k">>>>)],
     [pat |-> {"Acala"},
      val |-> Some(<<<<"h", "t", "t", "p", "s", ":", "/", "/", "b", "l", "o", "c", "k", "s", "c", "o", "u", "t", ".", "a", "c", "a", "l", "a", ".", "n", "e", "t", "w", "o", "r", "k", "/", "a", "p", "i">>,
             <<"h", "t", "t", "p", "s", ":", "/", "/", "b", "l", "o", "c", "k", "s", "c", "o", "u", "t", ".", "a", "c", "a", "l", "a", ".", "n", "e", "t", "w", "o", "r", "k">>>>)],
     [pat |-> {"AcalaMandalaTestnet"},
      val |-> Some(<<<<"h", "t", "t", "p", "s", ":", "/", "/", "b", "l", "o", "c", "k", "s", "c", "o", "u", "t", ".", "m", "a", "n", "d", "a", "l", "a", ".", "a", "c", "a", "-", "s", "t", "a", "g", "i", "n", "g", ".", "n", "e", "t", "w", "o", "r", "k", "/", "a", "p", "i">>,
             <<"h", "t", "t", "p", "s", ":", "/", "/", "b", "l", "o", "c", "k", "s", "c", "o", "u", "t", ".", "m", "a", "n", "d", "a", "l", "a", ".", "a", "c", "a", "-", "s", "t", "a", "g", "i", "n", "g", ".", "n", "e", "t", "w", "o", "r", "k">>>>)],
     [pat |-> {"Karura"},
      val |-> Some(<<<<"h", "t", "t", "p", "s", ":", "/", "/", "b", "l", "o", "c", "k", "s", "c", "o", "u", "t", ".", "k", "a", "r", "u", "r", "a", ".", "n", "e", "t", "w", "o", "r", "k", "/", "a", "p", "i">>,
             <<"h", "t", "t", "p", "s", ":", "/", "/", "b", "l", "o", "c", "k", "s", "c", "o", "u", "t", ".", "k", "a", "r", "u", "r", "a", ".", "n", "e", "t", "w", "o", "r", "k">>>>)],
     [pat |-> {"Darwinia"},
      val |-> Some(<<<<"h", "t", "t", "p", "s", ":", "/", "/", "e", "x", "p", "l", "o", "r", "e", "r", ".", "d", "a", "r", "w", "i", "n", "i", "a", ".", "n", "e", "t", "w", "o", "r", "k", "/", "a", "p", "i">>,
             <<"h", "t", "t", "p", "s", ":", "/", "/", "e", "x", "p", "l", "o", "r", "e", "r", ".", "d", "a", "r", "w", "i", "n", "i", "a", ".", "n", "e", "t", "w", "o", "r", "k">>>>)],
     [pat |-> {"Crab"},
      val |-> Some(<<<<"h", "t", "t", "p", "s", ":", "/", "/", "c", "r", "a", "b", "-", "s", "c", "a", "n", ".", "d", "a", "r", "w", "i", "n", "i", "a", ".", "n", "e", "t", "w", "o", "r", "k", "/", "a", "p", "i">>,
             <<"h", "t", "t", "p", "s", ":", "/", "/", "c", "r", "a", "b", "-", "s", "c", "a", "n", ".", "d", "a", "r", "w", "i", "n", "i", "a", ".", "n", "e", "t", "w", "o", "r", "k">>>>)],
     [pat |-> {"Cfx"},
      val |-> Some(<<<<"h", "t", "t", "p", "s", ":", "/", "/", "e", "v", "m", "a", "p", "i", ".", "c", "o", "n", "f", "l", "u", "x", "s", "c", "a", "n", ".", "n", "e", "t", "/", "a", "p", "i">>,
             <<"h", "t", "t", "p", "s", ":", "/", "/", "e", "v", "m", ".", "c", "o", "n", "f", "l", "u", "x", "s", "c", "a", "n", ".", "i", "o">>>>)],
     [pat |-> {"CfxTestnet"},
      val |-> Some(<<<<"h", "t", "t", "p", "s", ":", "/", "/", "e", "v", "m", "a", "p", "i", "-", "t", "e", "s", "t", "n", "e", "t", ".", "c", "o", "n", "f", "l", "u", "x", "s", "c", "a", "n", ".", "n", "e", "t", "/", "a", "p", "i">>,
             <<"h", "t", "t", "p", "s", ":", "/", "/", "e", "v", "m", "t", "e", "s", "t", "n", "e", "t", ".", "c", "o", "n", "f", "l", "u", "x", "s", "c", "a", "n", ".", "i", "o">>>>)],
     [pat |-> {"Pulsechain"},
      val |-> Some(<<<<"h", "t", "t", "p", "s", ":", "/", "/", "a", "p", "i", ".", "s", "c", "a", "n", ".", "p", "u", "l", "s", "e", "c", "h", "a", "i", "n", ".", "c", "o", "m">>,
             <<"h", "t", "t", "p", "s", ":", "/", "/", "s", "c", "a", "n", ".", "p", "u", "l", "s", "e", "c", "h", "a", "i", "n", ".", "c", "o", "m">>>>)],
     [pat |-> {"PulsechainTestnet"},
      val |-> Some(<<<<"h", "t", "t", "p", "s", ":", "/", "/", "a", "p", "i", ".", "s", "c", "a", "n", ".", "v", "4", ".", "t", "e", "s", "t", "n", "e", "t", ".", "p", "u", "l", "s", "e", "c", "h", "a", "i", "n", ".", "c", "o", "m">>,
             <<"h", "t", "t", "p", "s", ":", "/", "/", "s", "c", "a", "n", ".", "v", "4", ".", "t", "e", "s", "t", "n", "e", "t", ".", "p", "u", "l", "s", "e", "c", "h", "a", "i", "n", ".", "c", "o", "m">>>>)],
     [pat |-> {"Immutable"},
      val |-> Some(<<<<"h", "t", "t", "p", "s", ":", "/", "/", "e", "x", "p", "l", "o", "r", "e", "r", ".", "i", "m", "m", "u", "t", "a", "b", "l", "e", ".", "c", "o", "m", "/", "a", "p", "i">>,
             <<"h", "t", "t", "p", "s", ":", "/", "/", "e", "x", "p", "l", "o", "r", "e", "r", ".", "i", "m", "m", "u", "t", "a", "b", "l", "e", ".", "c", "o", "m">>>>)],
     [pat |-> {"ImmutableTestnet"},
      val |-> Some(<<<<"h", "t", "t", "p", "s", ":", "/", "/", "e", "x", "p", "l", "o", "r", "e", "r", ".", "t", "e", "s", "t", "n", "e", "t", ".", "i", "m", "m", "u", "t", "a", "b", "l", "e", ".", "c", "o", "m", "/", "a", "p", "i">>,
             <<"h", "t", "t", "p", "s", ":", "/", "/", "e", "x", "p", "l", "o", "r", "e", "r", ".", "t", "e", "s", "t", "n", "e", "t", ".", "i", "m", "m", "u", "t", "a", "b", "l", "e", ".", "c", "o", "m">>>>)],
     [pat |-> {"Soneium"},
      val |-> Some(<<<<"h", "t", "t", "p", "s", ":", "/", "/", "s", "o", "n", "e", "i", "u", "m", ".", "b", "l", "o", "c", "k", "s", "c", "o", "u", "t", ".", "c", "o", "m", "/", "a", "p", "i">>,
             <<"h", "t", "t", "p", "s", ":", "/", "/", "s", "o", "n", "e", "i", "u", "m", ".", "b", "l", "o", "c", "k", "s", "c", "o", "u", "t", ".", "c", "o", "m">>>>)],
     [pat |-> {"SoneiumMinatoTestnet"},
      val |-> Some(<<<<"h", "t", "t", "p", "s", ":", "/", "/", "s", "o", "n", "e", "i", "u", "m", "-", "m", "i", "n", "a", "t", "o", ".", "b", "l", "o", "c", "k", "s", "c", "o", "u", "t", ".", "c", "o", "m", "/", "a", "p", "i">>,
             <<"h", "t", "t", "p", "s", ":", "/", "/", "s", "o", "n", "e", "i", "u", "m", "-", "m", "i", "n", "a", "t", "o", ".", "b", "l", "o", "c", "k", "s", "c", "o", "u", "t", ".", "c", "o", "m">>>>)],
     [pat |-> {"Odyssey"},
      val |-> Some(<<<<"h", "t", "t", "p", "s", ":", "/", "/", "o", "d", "y", "s", "s", "e", "y", "-", "e", "x", "p", "l", "o", "r", "e", "r", ".", "i", "t", "h", "a", "c", "a", ".", "x", "y", "z", "/", "a", "p", "i">>,
             <<"h", "t", "t", "p", "s", ":", "/", "/", "o", "d", "y", "s", "s", "e", "y", "-", "e", "x", "p", "l", "o", "r", "e", "r", ".", "i", "t", "h", "a", "c", "a", ".", "x", "y", "z">>>>)],
     [pat |-> {"World"},
      val |-> Some(<<<<"h", "t", "t", "p", "s", ":", "/", "/", "a", "p", "i", ".", "e", "t", "h", "e", "r", "s", "c", "a", "n", ".", "i", "o", "/", "v", "2", "/", "a", "p", "i", "?", "c", "h", "a", "i", "n", "i", "d", "=", "4", "8", "0">>,
             <<"h", "t", "t", "p", "s", ":", "/", "/", "w", "o", "r", "l", "d", "s", "c", "a", "n", ".", "o", "r", "g">>>>)],
     [pat |-> {"WorldSepolia"},
      val |-> Some(<<<<"h", "t", "t", "p", "s", ":", "/", "/", "a", "p", "i", ".", "e", "t", "h", "e", "r", "s", "c", "a", "n", ".", "i", "o", "/", "v", "2", "/", "a", "p", "i", "?", "c", "h", "a", "i", "n", "i", "d", "=", "4", "8", "0", "1">>,
             <<"h", "t", "t", "p", "s", ":", "/", "/", "s", "e", "p", "o", "l", "i", "a", ".", "w", "o", "r", "l", "d", "s", "c", "a", "n", ".", "o", "r", "g">>>>)],
     [pat |-> {"Unichain"},
      val |-> Some(<<<<"h", "t", "t", "p", "s", ":", "/", "/", "a", "p", "i", ".", "e", "t", "h", "e", "r", "s", "c", "a", "n", ".", "i", "o", "/", "v", "2", "/", "a", "p", "i", "?", "c", "h", "a", "i", "n", "i", "d", "=", "1", "3", "0">>,
             <<"h", "t", "t", "p", "s", ":", "/", "/", "u", "n", "i", "s", "c", "a", "n", ".", "x", "y", "z">>>>)],
     [pat |-> {"UnichainSepolia"},
      val |-> Some(<<<<"h", "t", "t", "p", "s", ":", "/", "/", "a", "p", "i", ".", "e", "t", "h", "e", "r", "s", "c", "a", "n", ".", "i", "o", "/", "v", "2", "/", "a", "p", "i", "?", "c", "h", "a", "i", "n", "i", "d", "=", "1", "3", "0", "1">>,
             <<"h", "t", "t", "p", "s", ":", "/", "/", "s", "e", "p", "o", "l", "i", "a", ".", "u", "n", "i", "s", "c", "a", "n", ".", "x", "y", "z">>>>)],
     [pat |-> {"SignetPecorino"},
      val |-> Some(<<<<"h", "t", "t", "p", "s", ":", "/", "/", "e", "x", "p", "l", "o", "r", "e", "r", ".", "p", "e", "c", "o", "r", "i", "n", "o", ".", "s", "i", "g", "n", "e", "t", ".", "s", "h", "/", "a", "p", "i">>,
             <<"h", "t", "t", "p", "s", ":", "/", "/", "e", "x", "p", "l", "o", "r", "e", "r", ".", "p", "e", "c", "o", "r", "i", "n", "o", ".", "s", "i", "g", "n", "e", "t", ".", "s", "h">>>>)],
     [pat |-> {"Core"},
      val |-> Some(<<<<"h", "t", "t", "p", "s", ":", "/", "/", "o", "p", "e", "n", "a", "p", "i", ".", "c", "o", "r", "e", "d", "a", "o", ".", "o", "r", "g", "/", "a", "p", "i">>,
             <<"h", "t", "t", "p", "s", ":", "/", "/", "s", "c", "a", "n", ".", "c", "o", "r", "e", "d", "a", "o", ".", "o", "r", "g">>>>)],
     [pat |-> {"Merlin"},
      val |-> Some(<<<<"h", "t", "t", "p", "s", ":", "/", "/", "s", "c", "a", "n", ".", "m", "e", "r", "l", "i", "n", "c", "h", "a", "i", "n", ".", "i", "o", "/", "a", "p", "i">>,
             <<"h", "t", "t", "p", "s", ":", "/", "/", "s", "c", "a", "n", ".", "m", "e", "r", "l", "i", "n", "c", "h", "a", "i", "n", ".", "i", "o">>>>)],
     [pat |-> {"Bitlayer"},
      val |-> Some(<<<<"h", "t", "t", "p", "s", ":", "/", "/", "a", "p", "i", ".", "b", "t", "r", "s", "c", "a", "n", ".", "c", "o", "m", "/", "s", "c", "a", "n", "/", "a", "p", "i">>,
             <<"h", "t", "t", "p", "s", ":", "/", "/", "w", "w", "w", ".", "b", "t", "r", "s", "c", "a", "n", ".", "c", "o", "m">>>>)],
     [pat |-> {"Vana"},
      val |-> Some(<<<<"h", "t", "t", "p", "s", ":", "/", "/", "a", "p", "i", ".", "v", "a", "n", "a", "s", "c", "a", "n", ".", "i", "o", "/", "a", "p", "i">>,
             <<"h", "t", "t", "p", "s", ":", "/", "/", "v", "a", "n", "a", "s", "c", "a", "n", ".", "i", "o">>>>)],
     [pat |-> {"Zeta"},
      val |-> Some(<<<<"h", "t", "t", "p", "s", ":", "/", "/", "z", "e", "t", "a", "c", "h", "a", "i", "n", ".", "b", "l", "o", "c", "k", "s", "c", "o", "u", "t", ".", "c", "o", "m", "/", "a", "p", "i">>,
             <<"h", "t", "t", "p", "s", ":", "/", "/", "z", "e", "t", "a", "c", "h", "a", "i", "n", ".", "b", "l", "o", "c", "k", "s", "c", "o", "u", "t", ".", "c", "o", "m">>>>)],
     [pat |-> {"Kaia"},
      val |-> Some(<<<<"h", "t", "t", "p", "s", ":", "/", "/", "m", "a", "i", "n", "n", "e", "t", "-", "o", "a", "p", "i", ".", "k", "a", "i", "a", "s", "c", "a", "n", ".", "i", "o", "/", "a", "p", "i">>,
             <<"h", "t", "t", "p", "s", ":", "/", "/", "k", "a", "i", "a", "s", "c", "a", "n", ".", "i", "o">>>>)],
     [pat |-> {"Story"},
      val |-> Some(<<<<"h", "t", "t", "p", "s", ":", "/", "/", "w", "w", "w", ".", "s", "t", "o", "r", "y", "s", "c", "a", "n", ".", "x", "y", "z", "/", "a", "p", "i", "/", "v", "2">>,
             <<"h", "t", "t", "p", "s", ":", "/", "/", "w", "w", "w", ".", "s", "t", "o", "r", "y", "s", "c", "a", "n", ".", "x", "y", "z">>>>)],
     [pat |-> {"Sei"},
      val |-> Some(<<<<"h", "t", "t", "p", "s", ":", "/", "/", "a", "p", "i", ".", "e", "t", "h", "e", "r", "s", "c", "a", "n", ".", "i", "o", "/", "v", "2", "/", "a", "p", "i", "?", "c", "h", "a", "i", "n", "i", "d", "=", "1", "3", "2", "9">>,
             <<"h", "t", "t", "p", "s", ":", "/", "/", "s", "e", "i", "s", "c", "a", "n", ".", "i", "o">>>>)],
     [pat |-> {"SeiTestnet"},
      val |-> Some(<<<<"h", "t", "t", "p", "s", ":", "/", "/", "a", "p", "i", ".", "e", "t", "h", "e", "r", "s", "c", "a", "n", ".", "i", "o", "/", "v", "2", "/", "a", "p", "i", "?", "c", "h", "a", "i", "n", "i", "d", "=", "1", "3", "2", "8">>,
             <<"h", "t", "t", "p", "s", ":", "/", "/", "t", "e", "s", "t", "n", "e", "t", ".", "s", "e", "i", "s", "c", "a", "n", ".", "i", "o">>>>)],
     [pat |-> {"StableMainnet"},
      val |-> Some(<<<<"h", "t", "t", "p", "s", ":", "/", "/", "a", "p", "i", ".", "e", "t", "h", "e", "r", "s", "c", "a", "n", ".", "i", "o", "/", "v", "2", "/", "a", "p", "i", "?", "c", "h", "a", "i", "n", "i", "d", "=", "9", "8", "8">>,
             <<"h", "t", "t", "p", "s", ":", "/", "/", "s", "t", "a", "b", "l", "e", "s", "c", "a", "n", ".", "x", "y", "z">>>>)],
     [pat |-> {"StableTestnet"},
      val |-> Some(<<<<"h", "t", "t", "p", "s", ":", "/", "/", "a", "p", "i", ".", "e", "t", "h", "e", "r", "s", "c", "a", "n", ".", "i", "o", "/", "v", "2", "/", "a", "p", "i", "?", "c", "h", "a", "i", "n", "i", "d", "=", "2", "2", "0", "1">>,
             <<"h", "t", "t", "p", "s", ":", "/", "/", "t", "e", "s", "t", "n", "e", "t", ".", "s", "t", "a", "b", "l", "e", "s", "c", "a", "n", ".", "x", "y", "z">>>>)],
     [pat |-> {"ApeChain"},
      val |-> Some(<<<<"h", "t", "t", "p", "s", ":", "/", "/", "a", "p", "i", ".", "e", "t", "h", "e", "r", "s", "c", "a", "n", ".", "i", "o", "/", "v", "2", "/", "a", "p", "i", "?", "c", "h", "a", "i", "n", "i", "d", "=", "3", "3", "1", "3", "9">>,
             <<"h", "t", "t", "p", "s", ":", "/", "/", "a", "p", "e", "s", "c", "a", "n", ".", "i", "o">>>>)],
     [pat |-> {"Curtis"},
      val |-> Some(<<<<"h", "t", "t", "p", "s", ":", "/", "/", "a", "p", "i", ".", "e", "t", "h", "e", "r", "s", "c", "a", "n", ".", "i", "o", "/", "v", "2", "/", "a", "p", "i", "?", "c", "h", "a", "i", "n", "i", "d", "=", "3", "3", "1", "1", "1">>,
             <<"h", "t", "t", "p", "s", ":", "/", "/", "c", "u", "r", "t", "i", "s", ".", "a", "p", "e", "s", "c", "a", "n", ".", "i", "o">>>>)],
     [pat |-> {"Sonic"},
      val |-> Some(<<<<"h", "t", "t", "p", "s", ":", "/", "/", "a", "p", "i", ".", "e", "t", "h", "e", "r", "s", "c", "a", "n", ".", "i", "o", "/", "v", "2", "/", "a", "p", "i", "?", "c", "h", "a", "i", "n", "i", "d", "=", "1", "4", "6">>,
             <<"h", "t", "t", "p", "s", ":", "/", "/", "s", "o", "n", "i", "c", "s", "c", "a", "n", ".", "o", "r", "g">>>>)],
     [pat |-> {"SonicTestnet"},
      val |-> Some(<<<<"h", "t", "t", "p", "s", ":", "/", "/", "a", "p", "i", ".", "e", "t", "h", "e", "r", "s", "c", "a", "n", ".", "i", "o", "/", "v", "2", "/", "a", "p", "i", "?", "c", "h", "a", "i", "n", "i", "d", "=", "1", "4", "6", "0", "1">>,
             <<"h", "t", "t", "p", "s", ":", "/", "/", "t", "e", "s", "t", "n", "e", "t", ".", "s", "o", "n", "i", "c", "s", "c", "a", "n", ".", "o", "r", "g">>>>)],
     [pat |-> {"BerachainBepolia"},
      val |-> Some(<<<<"h", "t", "t", "p", "s", ":", "/", "/", "a", "p", "i", ".", "e", "t", "h", "e", "r", "s", "c", "a", "n", ".", "i", "o", "/", "v", "2", "/", "a", "p", "i", "?", "c", "h", "a", "i", "n", "i", "d", "=", "8", "0", "0", "6", "9">>,
             <<"h", "t", "t", "p", "s", ":", "/", "/", "t", "e", "s", "t", "n", "e", "t", ".", "b", "e", "r", "a", "s", "c", "a", "n", ".", "c", "o", "m">>>>)],
     [pat |-> {"Berachain"},
      val |-> Some(<<<<"h", "t", "t", "p", "s", ":", "/", "/", "a", "p", "i", ".", "e", "t", "h", "e", "r", "s", "c", "a", "n", ".", "i", "o", "/", "v", "2", "/", "a", "p", "i", "?", "c", "h", "a", "i", "n", "i", "d", "=", "8", "0", "0", "9", "4">>,
             <<"h", "t", "t", "p", "s", ":", "/", "/", "b", "e", "r", "a", "s", "c", "a", "n", ".", "c", "o", "m">>>>)],
     [pat |-> {"SuperpositionTestnet"},
      val |-> Some(<<<<"h", "t", "t", "p", "s", ":", "/", "/", "t", "e", "s", "t", "n", "e", "t", "-", "e", "x", "p", "l", "o", "r", "e", "r", ".", "s", "u", "p", "e", "r", "p", "o", "s", "i", "t", "i", "o", "n", ".", "s", "o", "/", "a", "p", "i">>,
             <<"h", "t", "t", "p", "s", ":", "/", "/", "t", "e", "s", "t", "n", "e", "t", "-", "e", "x", "p", "l", "o", "r", "e", "r", ".", "s", "u", "p", "e", "r", "p", "o", "s", "i", "t", "i", "o", "n", ".", "s", "o">>>>)],
     [pat |-> {"Superposition"},
      val |-> Some(<<<<"h", "t", "t", "p", "s", ":", "/", "/", "e", "x", "p", "l", "o", "r", "e", "r", ".", "s", "u", "p", "e", "r", "p", "o", "s", "i", "t", "i", "o", "n", ".", "s", "o", "/", "a", "p", "i">>,
             <<"h", "t", "t", "p", "s", ":", "/", "/", "e", "x", "p", "l", "o", "r", "e", "r", ".", "s", "u", "p", "e", "r", "p", "o", "s", "i", "t", "i", "o", "n", ".", "s", "o">>>>)],
     [pat |-> {"Monad"},
      val |-> Some(<<<<"h", "t", "t", "p", "s", ":", "/", "/", "a", "p", "i", ".", "e", "t", "h", "e", "r", "s", "c", "a", "n", ".", "i", "o", "/", "v", "2", "/", "a", "p", "i", "?", "c", "h", "a", "i", "n", "i", "d", "=", "1", "4", "3">>,
             <<"h", "t", "t", "p", "s", ":", "/", "/", "m", "o", "n", "a", "d", "s", "c", "a", "n", ".", "c", "o", "m">>>>)],
     [pat |-> {"MonadTestnet"},
      val |-> Some(<<<<"h", "t", "t", "p", "s", ":", "/", "/", "a", "p", "i", ".", "e", "t", "h", "e", "r", "s", "c", "a", "n", ".", "i", "o", "/", "v", "2", "/", "a", "p", "i", "?", "c", "h", "a", "i", "n", "i", "d", "=", "1", "0", "1", "4", "3">>,
             <<"h", "t", "t", "p", "s", ":", "/", "/", "t", "e", "s", "t", "n", "e", "t", ".", "m", "o", "n", "a", "d", "s", "c", "a", "n", ".", "c", "o", "m">>>>)],
     [pat |-> {"TelosEvm"},
      val |-> Some(<<<<"h", "t", "t", "p", "s", ":", "/", "/", "a", "p", "i", ".", "t", "e", "l", "o", "s", "c", "a", "n", ".", "i", "o", "/", "a", "p", "i">>,
             <<"h", "t", "t", "p", "s", ":", "/", "/", "t", "e", "l", "o", "s", "c", "a", "n", ".", "i", "o">>>>)],
     [pat |-> {"TelosEvmTestnet"},
      val |-> Some(<<<<"h", "t", "t", "p", "s", ":", "/", "/", "a", "p", "i", ".", "t", "e", "s", "t", "n", "e", "t", ".", "t", "e", "l", "o", "s", "c", "a", "n", ".", "i", "o", "/", "a", "p", "i">>,
             <<"h", "t", "t", "p", "s", ":", "/", "/", "t", "e", "s", "t", "n", "e", "t", ".", "t", "e", "l", "o", "s", "c", "a", "n", ".", "i", "o">>>>)],
     [pat |-> {"Hyperliquid"},
      val |-> Some(<<<<"h", "t", "t", "p", "s", ":", "/", "/", "a", "p", "i", ".", "e", "t", "h", "e", "r", "s", "c", "a", "n", ".", "i", "o", "/", "v", "2", "/", "a", "p", "i", "?", "c", "h", "a", "i", "n", "i", "d", "=", "9", "9", "9">>,
             <<"h", "t", "t", "p", "s", ":", "/", "/", "h", "y", "p", "e", "r", "e", "v", "m", "s", "c", "a", "n", ".", "i", "o">>>>)],
     [pat |-> {"Abstract"},
      val |-> Some(<<<<"h", "t", "t", "p", "s", ":", "/", "/", "a", "p", "i", ".", "e", "t", "h", "e", "r", "s", "c", "a", "n", ".", "i", "o", "/", "v", "2", "/", "a", "p", "i", "?", "c", "h", "a", "i", "n", "i", "d", "=", "2", "7", "4", "1">>,
             <<"h", "t", "t", "p", "s", ":", "/", "/", "a", "b", "s", "c", "a", "n", ".", "o", "r", "g">>>>)],
     [pat |-> {"AbstractTestnet"},
      val |-> Some(<<<<"h", "t", "t", "p", "s", ":", "/", "/", "a", "p", "i", ".", "e", "t", "h", "e", "r", "s", "c", "a", "n", ".", "i", "o", "/", "v", "2", "/", "a", "p", "i", "?", "c", "h", "a", "i", "n", "i", "d", "=", "1", "1", "1", "2", "4">>,
             <<"h", "t", "t", "p", "s", ":", "/", "/", "s", "e", "p", "o", "l", "i", "a", ".", "a", "b", "s", "c", "a", "n", ".", "o", "r", "g">>>>)],
     [pat |-> {"Corn"},
      val |-> Some(<<<<"h", "t", "t", "p", "s", ":", "/", "/", "a", "p", "i", ".", "r", "o", "u", "t", "e", "s", "c", "a", "n", ".", "i", "o", "/", "v", "2", "/", "n", "e", "t", "w", "o", "r", "k", "/", "m", "a", "i", "n", "n", "e", "t", "/", "e", "v", "m", "/", "2", "1", "0", "0", "0", "0", "0", "0", "/", "e", "t", "h", "e", "r", "s", "c", "a", "n", "/", "a", "p", "i">>,
             <<"h", "t", "t", "p", "s", ":", "/", "/", "c", "o", "r", "n", "s", "c", "a", "n", ".", "i", "o">>>>)],
     [pat |-> {"CornTestnet"},
      val |-> Some(<<<<"h", "t", "t", "p", "s", ":", "/", "/", "a", "p", "i", ".", "r", "o", "u", "t", "e", "s", "c", "a", "n", ".", "i", "o", "/", "v", "2", "/", "n", "e", "t", "w", "o", "r", "k", "/", "t", "e", "s", "t", "n", "e", "t", "/", "e", "v", "m", "/", "2", "1", "0", "0", "0", "0", "0", "1", "/", "e", "t", "h", "e", "r", "s", "c", "a", "n", "/", "a", "p", "i">>,
             <<"h", "t", "t", "p", "s", ":", "/", "/", "t", "e", "s", "t", "n", "e", "t", ".", "c", "o", "r", "n", "s", "c", "a", "n", ".", "i", "o">>>>)],
     [pat |-> {"Sophon"},
      val |-> Some(<<<<"h", "t", "t", "p", "s", ":", "/", "/", "a", "p", "i", ".", "e", "t", "h", "e", "r", "s", "c", "a", "n", ".", "i", "o", "/", "v", "2", "/", "a", "p", "i", "?", "c", "h", "a", "i", "n", "i", "d", "=", "5", "0", "1", "0", "4">>,
             <<"h", "t", "t", "p", "s", ":", "/", "/", "s", "o", "p", "h", "s", "c", "a", "n", ".", "x", "y", "z">>>>)],
     [pat |-> {"SophonTestnet"},
      val |-> Some(<<<<"h", "t", "t", "p", "s", ":", "/", "/", "a", "p", "i", ".", "e", "t", "h", "e", "r", "s", "c", "a", "n", ".", "i", "o", "/", "v", "2", "/", "a", "p", "i", "?", "c", "h", "a", "i", "n", "i", "d", "=", "5", "3", "1", "0", "5", "0", "1", "0", "4">>,
             <<"h", "t", "t", "p", "s", ":", "/", "/", "t", "e", "s", "t", "n", "e", "t", ".", "s", "o", "p", "h", "s", "c", "a", "n", ".", "x", "y", "z">>>>)],
     [pat |-> {"Lens"},
      val |-> Some(<<<<"h", "t", "t", "p", "s", ":", "/", "/", "e", "x", "p", "l", "o", "r", "e", "r", "-", "a", "p", "i", ".", "l", "e", "n", "s", ".", "x", "y", "z">>,
             <<"h", "t", "t", "p", "s", ":", "/", "/", "e", "x", "p", "l", "o", "r", "e", "r", ".", "l", "e", "n", "s", ".", "x", "y", "z">>>>)],
     [pat |-> {"LensTestnet"},
      val |-> Some(<<<<"h", "t", "t", "p", "s", ":", "/", "/", "b", "l", "o", "c", "k", "-", "e", "x", "p", "l", "o", "r", "e", "r", "-", "a", "p", "i", ".", "s", "t", "a", "g", "i", "n", "g", ".", "l", "e", "n", "s", ".", "z", "k", "s", "y", "n", "c", ".", "d", "e", "v">>,
             <<"h", "t", "t", "p", "s", ":", "/", "/", "e", "x", "p", "l", "o", "r", "e", "r", ".", "t", "e", "s", "t", "n", "e", "t", ".", "l", "e", "n", "s", ".", "x", "y", "z">>>>)],
     [pat |-> {"Katana"},
      val |-> Some(<<<<"h", "t", "t", "p", "s", ":", "/", "/", "a", "p", "i", ".", "e", "t", "h", "e", "r", "s", "c", "a", "n", ".", "i", "o", "/", "v", "2", "/", "a", "p", "i", "?", "c", "h", "a", "i", "n", "i", "d", "=", "7", "4", "7", "4", "7", "4">>,
             <<"h", "t", "t", "p", "s", ":", "/", "/", "k", "a", "t", "a", "n", "a", "s", "c", "a", "n", ".", "c", "o", "m">>>>)],
     [pat |-> {"Lisk"},
      val |-> Some(<<<<"h", "t", "t", "p", "s", ":", "/", "/", "b", "l", "o", "c", "k", "s", "c", "o", "u", "t", ".", "l", "i", "s", "k", ".", "c", "o", "m", "/", "a", "p", "i">>,
             <<"h", "t", "t", "p", "s", ":", "/", "/", "b", "l", "o", "c", "k", "s", "c", "o", "u", "t", ".", "l", "i", "s", "k", ".", "c", "o", "m">>>>)],
     [pat |-> {"Fuse"},
      val |-> Some(<<<<"h", "t", "t", "p", "s", ":", "/", "/", "e", "x", "p", "l", "o", "r", "e", "r", ".", "f", "u", "s", "e", ".", "i", "o", "/", "a", "p", "i">>,
             <<"h", "t", "t", "p", "s", ":", "/", "/", "e", "x", "p", "l", "o", "r", "e", "r", ".", "f", "u", "s", "e", ".", "i", "o">>>>)],
     [pat |-> {"Injective"},
      val |-> Some(<<<<"h", "t", "t", "p", "s", ":", "/", "/", "b", "l", "o", "c", "k", "s", "c", "o", "u", "t", "-", "a", "p", "i", ".", "i", "n", "j", "e", "c", "t", "i", "v", "e", ".", "n", "e", "t", "w", "o", "r", "k", "/", "a", "p", "i">>,
             <<"h", "t", "t", "p", "s", ":", "/", "/", "b", "l", "o", "c", "k", "s", "c", "o", "u", "t", ".", "i", "n", "j", "e", "c", "t", "i", "v", "e", ".", "n", "e", "t", "w", "o", "r", "k">>>>)],
     [pat |-> {"InjectiveTestnet"},
      val |-> Some(<<<<"h", "t", "t", "p", "s", ":", "/", "/", "t", "e", "s", "t", "n", "e", "t", ".", "b", "l", "o", "c", "k", "s", "c", "o", "u", "t", "-", "a", "p", "i", ".", "i", "n", "j", "e", "c", "t", "i", "v", "e", ".", "n", "e", "t", "w", "o", "r", "k", "/", "a", "p", "i">>,
             <<"h", "t", "t", "p", "s", ":", "/", "/", "t", "e", "s", "t", "n", "e", "t", ".", "b", "l", "o", "c", "k", "s", "c", "o", "u", "t", ".", "i", "n", "j", "e", "c", "t", "i", "v", "e", ".", "n", "e", "t", "w", "o", "r", "k">>>>)],
     [pat |-> {"FluentDevnet"},
      val |-> Some(<<<<"h", "t", "t", "p", "s", ":", "/", "/", "b", "l", "o", "c", "k", "s", "c", "o", "u", "t", ".", "d", "e", "v", ".", "g", "b", "l", "e", "n", "d", ".", "x", "y", "z", "/", "a", "p", "i">>,
             <<"h", "t", "t", "p", "s", ":", "/", "/", "b", "l", "o", "c", "k", "s", "c", "o", "u", "t", ".", "d", "e", "v", ".", "g", "b", "l", "e", "n", "d", ".", "x", "y", "z">>>>)],
     [pat |-> {"FluentTestnet"},
      val |-> Some(<<<<"h", "t", "t", "p", "s", ":", "/", "/", "t", "e", "s", "t", "n", "e", "t", ".", "f", "l", "u", "e", "n", "t", "s", "c", "a", "n", ".", "x", "y", "z", "/", "a", "p", "i">>,
             <<"h", "t", "t", "p", "s", ":", "/", "/", "t", "e", "s", "t", "n", "e", "t", ".", "f", "l", "u", "e", "n", "t", "s", "c", "a", "n", ".", "x", "y", "z">>>>)],
     [pat |-> {"MemeCore"},
      val |-> Some(<<<<"h", "t", "t", "p", "s", ":", "/", "/", "a", "p", "i", ".", "e", "t", "h", "e", "r", "s", "c", "a", "n", ".", "i", "o", "/", "v", "2", "/", "a", "p", "i", "?", "c", "h", "a", "i", "n", "i", "d", "=", "4", "3", "5", "2">>,
             <<"h", "t", "t", "p", "s", ":", "/", "/", "m", "e", "m", "e", "c", "o", "r", "e", "s", "c", "a", "n", ".", "i", "o">>>>)],
     [pat |-> {"Formicarium"},
      val |-> Some(<<<<"h", "t", "t", "p", "s", ":", "/", "/", "a", "p", "i", ".", "e", "t", "h", "e", "r", "s", "c", "a", "n", ".", "i", "o", "/", "v", "2", "/", "a", "p", "i", "?", "c", "h", "a", "i", "n", "i", "d", "=", "4", "3", "5", "2", "1">>,
             <<"h", "t", "t", "p", "s", ":", "/", "/", "f", "o", "r", "m", "i", "c", "a", "r", "i", "u", "m", ".", "m", "e", "m", "e", "c", "o", "r", "e", "s", "c", "a", "n", ".", "i", "o">>>>)],
     [pat |-> {"Insectarium"},
      val |-> Some(<<<<"h", "t", "t", "p", "s", ":", "/", "/", "i", "n", "s", "e", "c", "t", "a", "r", "i", "u", "m", ".", "b", "l", "o", "c", "k", "s", "c", "o", "u", "t", ".", "m", "e", "m", "e", "c", "o", "r", "e", ".", "c", "o", "m", "/", "a", "p", "i">>,
             <<"h", "t", "t", "p", "s", ":", "/", "/", "i", "n", "s", "e", "c", "t", "a", "r", "i", "u", "m", ".", "b", "l", "o", "c", "k", "s", "c", "o", "u", "t", ".", "m", "e", "m", "e", "c", "o", "r", "e", ".", "c", "o", "m">>>>)],
     [pat |-> {"SkaleBase"},
      val |-> Some(<<<<"h", "t", "t", "p", "s", ":", "/", "/", "s", "k", "a", "l", "e", "-", "b", "a", "s", "e", "-", "e", "x", "p", "l", "o", "r", "e", "r", ".", "s", "k", "a", "l", "e", "n", "o", "d", "e", "s", ".", "c", "o", "m", "/", "a", "p", "i">>,
             <<"h", "t", "t", "p", "s", ":", "/", "/", "s", "k", "a", "l", "e", "-", "b", "a", "s", "e", "-", "e", "x", "p", "l", "o", "r", "e", "r", ".", "s", "k", "a", "l", "e", "n", "o", "d", "e", "s", ".", "c", "o", "m">>>>)],
     [pat |-> {"SkaleBaseTestnet"},
      val |-> Some(<<<<"h", "t", "t", "p", "s", ":", "/", "/", "b", "a", "s", "e", "-", "s", "e", "p", "o", "l", "i", "a", "-", "t", "e", "s", "t", "n", "e", "t", "-", "e", "x", "p", "l", "o", "r", "e", "r", ".", "s", "k", "a", "l", "e", "n", "o", "d", "e", "s", ".", "c", "o", "m", "/", "a", "p", "i">>,
             <<"h", "t", "t", "p", "s", ":", "/", "/", "b", "a", "s", "e", "-", "s", "e", "p", "o", "l", "i", "a", "-", "t", "e", "s", "t", "n", "e", "t", "-", "e", "x", "p", "l", "o", "r", "e", "r", ".", "s", "k", "a", "l", "e", "n", "o", "d", "e", "s", ".", "c", "o", "m">>>>)],
     [pat |-> {"AcalaTestnet", "AnvilHardhat", "ArbitrumGoerli", "ArbitrumTestnet",
              "AutonomysNovaTestnet", "BaseGoerli", "Canto", "CantoTestnet", "CronosTestnet",
              "Dev", "Evmos", "EvmosTestnet", "Fantom", "FantomTestnet", "FilecoinMainnet",
              "Goerli", "Iotex", "KaruraTestnet", "Koi", "Kovan", "LineaGoerli", "MoonbeamDev",
              "Morden", "Oasis", "OptimismGoerli", "OptimismKovan", "Pgn", "PgnSepolia", "Poa",
              "Rinkeby", "Ropsten", "Sokol", "Treasure", "TreasureTopaz", "Cannon",
              "PolkadotTestnet"},
      val |-> None] >>

\* Mutant of NamedChain_etherscan_urls: the base URL of Mainnet ends with "/".
NamedChain_etherscan_urls_with_separator(v) ==
  LET urls == match_self(etherscan_urls_arms, v)
  IN  IF v = "Mainnet" THEN Some(<<unwrap(urls)[1], unwrap(urls)[2] \o <<"/">> >>) ELSE urls

\* Mutant of NamedChain_etherscan_urls: Sepolia has the URLs of Mainnet.
NamedChain_etherscan_urls_of_mainnet(v) ==
  match_self(etherscan_urls_arms, IF v = "Sepolia" THEN "Mainnet" ELSE v)

NamedChain_etherscan_urls(v) == match_self(etherscan_urls_arms, v)

\* NamedChain::etherscan_api_key_name. The arms of its match, in order.
etherscan_api_key_name_arms ==
  << [pat |-> {"Abstract", "AbstractTestnet", "ApeChain", "Arbitrum", "ArbitrumGoerli",
              "ArbitrumNova", "ArbitrumSepolia", "ArbitrumTestnet", "Aurora", "AuroraTestnet",
              "Avalanche", "AvalancheFuji", "Base", "BaseGoerli", "BaseSepolia",
              "BinanceSmartChain", "BinanceSmartChainTestnet", "Blast", "BlastSepolia", "Celo",
              "Cronos", "CronosTestnet", "Fraxtal", "FraxtalTestnet", "Gnosis", "Goerli",
              "Holesky", "Hoodi", "Hyperliquid", "Katana", "Kovan", "Linea", "LineaSepolia",
              "Mainnet", "Mantle", "MantleSepolia", "Monad", "MonadTestnet", "Morden",
              "OpBNBMainnet", "OpBNBTestnet", "Optimism", "OptimismGoerli", "OptimismKovan",
              "OptimismSepolia", "Polygon", "PolygonAmoy", "Rinkeby", "Ropsten", "Scroll",
              "ScrollSepolia", "Sei", "SeiTestnet", "StableMainnet", "StableTestnet", "Sonic",
              "SonicTestnet", "Sophon", "SophonTestnet", "Syndr", "SyndrSepolia", "Taiko",
              "TaikoHekla", "Unichain", "UnichainSepolia", "Xai", "XaiSepolia", "ZkSync",
              "ZkSyncTestnet", "MemeCore", "Formicarium", "SkaleBase", "SkaleBaseTestnet"},
      val |-> Some(<<"E", "T", "H", "E", "R", "S", "C", "A", "N", "_", "A", "P", "I", "_", "K", "E", "Y">>)],
     [pat |-> {"Fantom", "FantomTestnet"},
      val |-> Some(<<"F", "T", "M", "S", "C", "A", "N", "_", "A", "P", "I", "_", "K", "E", "Y">>)],
     [pat |-> {"Moonbeam", "Moonbase", "MoonbeamDev", "Moonriver"},
      val |-> Some(<<"M", "O", "O", "N", "S", "C", "A", "N", "_", "A", "P", "I", "_", "K", "E", "Y">>)],
     [pat |-> {"Acala", "AcalaMandalaTestnet", "AcalaTestnet", "Canto", "CantoTestnet",
              "CeloSepolia", "Etherlink", "EtherlinkTestnet", "Flare", "FlareCoston2", "Karura",
              "KaruraTestnet", "Mode", "ModeSepolia", "Pgn", "PgnSepolia", "Shimmer", "Zora",
              "ZoraSepolia", "Darwinia", "Crab", "Koi", "Immutable", "ImmutableTestnet",
              "Soneium", "SoneiumMinatoTestnet", "World", "WorldSepolia", "Curtis", "Ink",
              "InkSepolia", "SuperpositionTestnet", "Superposition", "Vana", "Story", "Lisk",
              "Fuse", "Injective", "InjectiveTestnet", "SignetPecorino"},
      val |-> Some(<<"B", "L", "O", "C", "K", "S", "C", "O", "U", "T", "_", "A", "P", "I", "_", "K", "E", "Y">>)],
     [pat |-> {"Boba"},
      val |-> Some(<<"B", "O", "B", "A", "S", "C", "A", "N", "_", "A", "P", "I", "_", "K", "E", "Y">>)],
     [pat |-> {"Core"},
      val |-> Some(<<"C", "O", "R", "E", "S", "C", "A", "N", "_", "A", "P", "I", "_", "K", "E", "Y">>)],
     [pat |-> {"Merlin"},
      val |-> Some(<<"M", "E", "R", "L", "I", "N", "S", "C", "A", "N", "_", "A", "P", "I", "_", "K", "E", "Y">>)],
     [pat |-> {"Bitlayer"},
      val |-> Some(<<"B", "I", "T", "L", "A", "Y", "E", "R", "S", "C", "A", "N", "_", "A", "P", "I", "_", "K", "E", "Y">>)],
     [pat |-> {"Zeta"},
      val |-> Some(<<"Z", "E", "T", "A", "S", "C", "A", "N", "_", "A", "P", "I", "_", "K", "E", "Y">>)],
     [pat |-> {"Kaia"},
      val |-> Some(<<"K", "A", "I", "A", "S", "C", "A", "N", "_", "A", "P", "I", "_", "K", "E", "Y">>)],
     [pat |-> {"Berachain", "BerachainBepolia"},
      val |-> Some(<<"B", "E", "R", "A", "S", "C", "A", "N", "_", "A", "P", "I", "_", "K", "E", "Y">>)],
     [pat |-> {"Corn", "CornTestnet", "Plasma"},
      val |-> Some(<<"R", "O", "U", "T", "E", "S", "C", "A", "N", "_", "A", "P", "I", "_", "K", "E", "Y">>)],
     [pat |-> {"Metis", "Chiado", "Odyssey", "Sepolia", "Rsk", "RskTestnet", "Sokol", "Poa",
              "Oasis", "Emerald", "EmeraldTestnet", "Evmos", "EvmosTestnet", "AnvilHardhat",
              "Dev", "GravityAlphaMainnet", "GravityAlphaTestnetSepolia", "Bob", "BobSepolia",
              "FilecoinMainnet", "LineaGoerli", "FilecoinCalibrationTestnet", "Viction",
              "Elastos", "Degen", "Ronin", "RoninTestnet", "Cfx", "CfxTestnet", "Pulsechain",
              "PulsechainTestnet", "AutonomysNovaTestnet", "Iotex", "HappychainTestnet",
              "Treasure", "TreasureTopaz", "TelosEvm", "TelosEvmTestnet", "Lens", "LensTestnet",
              "FluentDevnet", "FluentTestnet", "Cannon", "Insectarium", "PolkadotTestnet"},
      val |-> None] >>

\* Mutant of NamedChain_etherscan_api_key_name: the match lacks its last arm.
NamedChain_etherscan_api_key_name_partial(v) ==
  match_self(SubSeq(etherscan_api_key_name_arms, 1, Len(etherscan_api_key_name_arms) - 1), v)

NamedChain_etherscan_api_key_name(v) == match_self(etherscan_api_key_name_arms, v)

\* NamedChain::wrapped_native_token: the 20 bytes of the address as 40 lowercase
\* hexadecimal digits. The arms of its match, in order; the last is the wildcard.
wrapped_native_token_arms ==
  << [pat |-> {"Mainnet"},
      val |-> Some("c02aaa39b223fe8d0a0e5c4f27ead9083c756cc2")],
     [pat |-> {"Optimism"},
      val |-> Some("4200000000000000000000000000000000000006")],
     [pat |-> {"BinanceSmartChain"},
      val |-> Some("bb4cdb9cbd36b01bd1cbaebf2de08d9173bc095c")],
     [pat |-> {"OpBNBMainnet"},
      val |-> Some("4200000000000000000000000000000000000006")],
     [pat |-> {"Arbitrum"},
      val |-> Some("82af49447d8a07e3bd95bd0d56f35241523fbab1")],
     [pat |-> {"Base"},
      val |-> Some("4200000000000000000000000000000000000006")],
     [pat |-> {"Linea"},
      val |-> Some("e5d7c2a44ffddf6b295a15c148167daaaf5cf34f")],
     [pat |-> {"Mantle"},
      val |-> Some("deaddeaddeaddeaddeaddeaddeaddeaddead1111")],
     [pat |-> {"Blast"},
      val |-> Some("4300000000000000000000000000000000000004")],
     [pat |-> {"Gnosis"},
      val |-> Some("e91d153e0b41518a2ce8dd3d7944fa863463a97d")],
     [pat |-> {"Scroll"},
      val |-> Some("5300000000000000000000000000000000000004")],
     [pat |-> {"Taiko"},
      val |-> Some("a51894664a773981c6c112c43ce576f315d5b1b6")],
     [pat |-> {"Avalanche"},
      val |-> Some("b31f66aa3c1e785363f0875a1b74e27b85fd66c7")],
     [pat |-> {"Polygon"},
      val |-> Some("0d500b1d8e8ef31e21c99d1db9a6444d3adf1270")],
     [pat |-> {"Fantom"},
      val |-> Some("21be370d5312f44cb42ce377bc9b8a0cef1a4c83")],
     [pat |-> {"Iotex"},
      val |-> Some("a00744882684c3e4747faefd68d283ea44099d03")],
     [pat |-> {"Core"},
      val |-> Some("40375c92d9faf44d2f9db9bd9ba41a3317a2404f")],
     [pat |-> {"Merlin"},
      val |-> Some("f6d226f9dc15d9bb51182815b320d3fbe324e1ba")],
     [pat |-> {"Bitlayer"},
      val |-> Some("ff204e2681a6fa0e2c3fade68a1b28fb90e4fc5f")],
     [pat |-> {"ApeChain"},
      val |-> Some("48b62137edfa95a428d35c09e44256a739f6b557")],
     [pat |-> {"Vana"},
      val |-> Some("00eddd9621fb08436d0331c149d1690909a5906d")],
     [pat |-> {"Zeta"},
      val |-> Some("5f0b1a82749cb4e2278ec87f8bf6b618dc71a8bf")],
     [pat |-> {"Kaia"},
      val |-> Some("19aac5f612f524b754ca7e7c41cbfa2e981a4432")],
     [pat |-> {"Story"},
      val |-> Some("1514000000000000000000000000000000000000")],
     [pat |-> {"Treasure"},
      val |-> Some("263d8f36bb8d0d9526255e205868c26690b04b88")],
     [pat |-> {"Superposition"},
      val |-> Some("1fb719f10b56d7a85dcd32f27f897375fb21cfdd")],
     [pat |-> {"Sonic"},
      val |-> Some("039e2fb66102314ce7b64ce5ce3e5183bc94ad38")],
     [pat |-> {"Berachain"},
      val |-> Some("6969696969696969696969696969696969696969")],
     [pat |-> {"Hyperliquid"},
      val |-> Some("5555555555555555555555555555555555555555")],
     [pat |-> {"Abstract"},
      val |-> Some("3439153eb7af838ad19d56e1571fbd09333c2809")],
     [pat |-> {"Sei"},
      val |-> Some("e30fedd158a2e3b13e9badaeabafc5516e95e8c7")],
     [pat |-> {"ZkSync"},
      val |-> Some("5aea5775959fbc2557cc8789bc1bf90a239d9a91")],
     [pat |-> {"Sophon"},
      val |-> Some("f1f9e08a0818594fde4713ae0db1e46672ca960e")],
     [pat |-> {"Rsk"},
      val |-> Some("967f8799af07df1534d48a95a5c9febe92c53ae0")],
     [pat |-> {"MemeCore", "Formicarium", "Insectarium"},
      val |-> Some("653e645e3d81a72e71328bc01a04002945e3ef7a")],
     [pat |-> AnyVariant,
      val |-> None] >>

NamedChain_wrapped_native_token(v) == match_self(wrapped_native_token_arms, v)

\* const DNS_PREFIX of NamedChain::public_dns_network_protocol.
DNS_PREFIX ==
  <<"e", "n", "r", "t", "r", "e", "e", ":", "/", "/", "A", "K", "A", "3", "A", "M", "6", "L",
    "P", "B", "Y", "E", "U", "D", "M", "V", "N", "U", "3", "B", "S", "V", "Q", "J", "5", "A",
    "D", "4", "5", "Y", "7", "Y", "P", "O", "H", "J", "L", "E", "F", "6", "W", "2", "6", "Q",
    "O", "E", "4", "V", "T", "U", "D", "P", "E", "@">>

\* Mutant of NamedChain_public_dns_network_protocol: the allow-list is the one
\* of Chain::public_dns_network_protocol.
NamedChain_public_dns_network_protocol_short_list(v) ==
  IF v \in {"Mainnet", "Goerli", "Sepolia", "Ropsten", "Rinkeby"}
  THEN Some(DNS_PREFIX \o <<"a", "l", "l", ".">> \o to_lowercase(NamedChain_as_ref(v))
              \o <<".", "e", "t", "h", "d", "i", "s", "c", "o", ".", "n", "e", "t">>)
  ELSE None

\* NamedChain::public_dns_network_protocol: the prefix, "all." and the name
\* are pushed to s, the bytes of the name at the end of s are lowercased in
\* place, and ".ethdisco.net" is pushed.
NamedChain_public_dns_network_protocol(v) ==
  IF v \in {"Mainnet", "Goerli", "Sepolia", "Ropsten", "Rinkeby", "Holesky", "Hoodi"}
  THEN LET chain_str == NamedChain_as_ref(v)
           s == DNS_PREFIX \o <<"a", "l", "l", ".">> \o chain_str
           l == Len(s)
           lowered == SubSeq(s, 1, l - Len(chain_str))
                        \o to_lowercase(SubSeq(s, l - Len(chain_str) + 1, l))
       IN  Some(lowered \o <<".", "e", "t", "h", "d", "i", "s", "c", "o", ".", "n", "e", "t">>)
  ELSE None

----------------------------------------------------------------------------
(* serde: Serialize by hand, Deserialize derived *)

\* #[serde(rename = "...")] of the variants that carry it.
SerdeRename ==
  [OpBNBMainnet |-> <<"o", "p", "b", "n", "b", "_", "m", "a", "i", "n", "n", "e", "t">>,
   OpBNBTestnet |-> <<"o", "p", "b", "n", "b", "_", "t", "e", "s", "t", "n", "e", "t">>,
   AutonomysNovaTestnet |-> <<"a", "u", "t", "o", "n", "o", "m", "y", "s", "_", "n", "o", "v", "a", "_", "t", "e", "s", "t", "n", "e", "t">>]

\* #[serde(alias = "...")] of the variants that carry it, in the order written.
SerdeAlias ==
  [Mainnet |-> << <<"e", "t", "h", "l", "i", "v", "e">> >>,
   Odyssey |-> << <<"o", "d", "y", "s", "s", "e", "y">> >>,
   OptimismKovan |-> << <<"o", "p", "t", "i", "m", "i", "s", "m", "-", "k", "o", "v", "a", "n">> >>,
   OptimismGoerli |-> << <<"o", "p", "t", "i", "m", "i", "s", "m", "-", "g", "o", "e", "r", "l", "i">> >>,
   OptimismSepolia |-> << <<"o", "p", "t", "i", "m", "i", "s", "m", "-", "s", "e", "p", "o", "l", "i", "a">> >>,
   Bob |-> << <<"b", "o", "b">> >>,
   BobSepolia |-> << <<"b", "o", "b", "-", "s", "e", "p", "o", "l", "i", "a">> >>,
   Arbitrum |-> << <<"a", "r", "b", "i", "t", "r", "u", "m", "_", "o", "n", "e">>, <<"a", "r", "b", "i", "t", "r", "u", "m", "-", "o", "n", "e">> >>,
   ArbitrumGoerli |-> << <<"a", "r", "b", "i", "t", "r", "u", "m", "-", "g", "o", "e", "r", "l", "i">> >>,
   ArbitrumSepolia |-> << <<"a", "r", "b", "i", "t", "r", "u", "m", "-", "s", "e", "p", "o", "l", "i", "a">> >>,
   ArbitrumNova |-> << <<"a", "r", "b", "i", "t", "r", "u", "m", "-", "n", "o", "v", "a">> >>,
   TelosEvm |-> << <<"t", "e", "l", "o", "s">>, <<"t", "e", "l", "o", "s", "_", "e", "v", "m">> >>,
   TelosEvmTestnet |-> << <<"t", "e", "l", "o", "s", "_", "t", "e", "s", "t", "n", "e", "t">>, <<"t", "e", "l", "o", "s", "-", "e", "v", "m", "-", "t", "e", "s", "t", "n", "e", "t">>, <<"t", "e", "l", "o", "s", "_", "e", "v", "m", "_", "t", "e", "s", "t", "n", "e", "t">> >>,
   Crab |-> << <<"c", "r", "a", "b">> >>,
   Darwinia |-> << <<"d", "a", "r", "w", "i", "n", "i", "a">> >>,
   Koi |-> << <<"k", "o", "i">> >>,
   BinanceSmartChain |-> << <<"b", "s", "c">>, <<"b", "n", "b", "-", "s", "m", "a", "r", "t", "-", "c", "h", "a", "i", "n">>, <<"b", "i", "n", "a", "n", "c", "e", "-", "s", "m", "a", "r", "t", "-", "c", "h", "a", "i", "n">> >>,
   BinanceSmartChainTestnet |-> << <<"b", "s", "c", "_", "t", "e", "s", "t", "n", "e", "t">>, <<"b", "s", "c", "-", "t", "e", "s", "t", "n", "e", "t">>, <<"b", "n", "b", "-", "s", "m", "a", "r", "t", "-", "c", "h", "a", "i", "n", "-", "t", "e", "s", "t", "n", "e", "t">>, <<"b", "i", "n", "a", "n", "c", "e", "-", "s", "m", "a", "r", "t", "-", "c", "h", "a", "i", "n", "-", "t", "e", "s", "t", "n", "e", "t">> >>,
   ScrollSepolia |-> << <<"s", "c", "r", "o", "l", "l", "_", "s", "e", "p", "o", "l", "i", "a", "_", "t", "e", "s", "t", "n", "e", "t">>, <<"s", "c", "r", "o", "l", "l", "-", "s", "e", "p", "o", "l", "i", "a">> >>,
   CfxTestnet |-> << <<"c", "o", "n", "f", "l", "u", "x", "-", "e", "s", "p", "a", "c", "e", "-", "t", "e", "s", "t", "n", "e", "t">> >>,
   Cfx |-> << <<"c", "o", "n", "f", "l", "u", "x", "-", "e", "s", "p", "a", "c", "e">> >>,
   Gnosis |-> << <<"x", "d", "a", "i">>, <<"g", "n", "o", "s", "i", "s">>, <<"g", "n", "o", "s", "i", "s", "-", "c", "h", "a", "i", "n">> >>,
   PolygonAmoy |-> << <<"a", "m", "o", "y">>, <<"p", "o", "l", "y", "g", "o", "n", "-", "a", "m", "o", "y">> >>,
   AnvilHardhat |-> << <<"a", "n", "v", "i", "l">>, <<"h", "a", "r", "d", "h", "a", "t">>, <<"a", "n", "v", "i", "l", "-", "h", "a", "r", "d", "h", "a", "t">> >>,
   GravityAlphaMainnet |-> << <<"g", "r", "a", "v", "i", "t", "y", "-", "a", "l", "p", "h", "a", "-", "m", "a", "i", "n", "n", "e", "t">> >>,
   GravityAlphaTestnetSepolia |-> << <<"g", "r", "a", "v", "i", "t", "y", "-", "a", "l", "p", "h", "a", "-", "t", "e", "s", "t", "n", "e", "t", "-", "s", "e", "p", "o", "l", "i", "a">> >>,
   AvalancheFuji |-> << <<"f", "u", "j", "i">> >>,
   BaseGoerli |-> << <<"b", "a", "s", "e", "-", "g", "o", "e", "r", "l", "i">> >>,
   BaseSepolia |-> << <<"b", "a", "s", "e", "-", "s", "e", "p", "o", "l", "i", "a">> >>,
   Syndr |-> << <<"s", "y", "n", "d", "r">> >>,
   SyndrSepolia |-> << <<"s", "y", "n", "d", "r", "-", "s", "e", "p", "o", "l", "i", "a">> >>,
   InkSepolia |-> << <<"i", "n", "k", "_", "s", "e", "p", "o", "l", "i", "a", "_", "t", "e", "s", "t", "n", "e", "t">>, <<"i", "n", "k", "-", "s", "e", "p", "o", "l", "i", "a">> >>,
   Fraxtal |-> << <<"f", "r", "a", "x", "t", "a", "l">> >>,
   FraxtalTestnet |-> << <<"f", "r", "a", "x", "t", "a", "l", "-", "t", "e", "s", "t", "n", "e", "t">> >>,
   BlastSepolia |-> << <<"b", "l", "a", "s", "t", "-", "s", "e", "p", "o", "l", "i", "a">> >>,
   LineaGoerli |-> << <<"l", "i", "n", "e", "a", "-", "g", "o", "e", "r", "l", "i">> >>,
   LineaSepolia |-> << <<"l", "i", "n", "e", "a", "-", "s", "e", "p", "o", "l", "i", "a">> >>,
   ZkSync |-> << <<"z", "k", "s", "y", "n", "c">> >>,
   ZkSyncTestnet |-> << <<"z", "k", "s", "y", "n", "c", "_", "t", "e", "s", "t", "n", "e", "t">>, <<"z", "k", "s", "y", "n", "c", "-", "t", "e", "s", "t", "n", "e", "t">> >>,
   Mantle |-> << <<"m", "a", "n", "t", "l", "e">> >>,
   MantleSepolia |-> << <<"m", "a", "n", "t", "l", "e", "-", "s", "e", "p", "o", "l", "i", "a">> >>,
   Xai |-> << <<"x", "a", "i">> >>,
   XaiSepolia |-> << <<"x", "a", "i", "-", "s", "e", "p", "o", "l", "i", "a">> >>,
   HappychainTestnet |-> << <<"h", "a", "p", "p", "y", "c", "h", "a", "i", "n", "-", "t", "e", "s", "t", "n", "e", "t">> >>,
   ZoraSepolia |-> << <<"z", "o", "r", "a", "-", "s", "e", "p", "o", "l", "i", "a">> >>,
   PgnSepolia |-> << <<"p", "g", "n", "-", "s", "e", "p", "o", "l", "i", "a">> >>,
   ModeSepolia |-> << <<"m", "o", "d", "e", "-", "s", "e", "p", "o", "l", "i", "a">> >>,
   Etherlink |-> << <<"e", "t", "h", "e", "r", "l", "i", "n", "k">> >>,
   EtherlinkTestnet |-> << <<"e", "t", "h", "e", "r", "l", "i", "n", "k", "-", "t", "e", "s", "t", "n", "e", "t">> >>,
   OpBNBMainnet |-> << <<"o", "p", "b", "n", "b", "-", "m", "a", "i", "n", "n", "e", "t">>, <<"o", "p", "-", "b", "n", "b", "-", "m", "a", "i", "n", "n", "e", "t">> >>,
   OpBNBTestnet |-> << <<"o", "p", "b", "n", "b", "-", "t", "e", "s", "t", "n", "e", "t">>, <<"o", "p", "-", "b", "n", "b", "-", "t", "e", "s", "t", "n", "e", "t">> >>,
   RoninTestnet |-> << <<"r", "o", "n", "i", "n", "-", "t", "e", "s", "t", "n", "e", "t">> >>,
   TaikoHekla |-> << <<"t", "a", "i", "k", "o", "-", "h", "e", "k", "l", "a">> >>,
   AutonomysNovaTestnet |-> << <<"a", "u", "t", "o", "n", "o", "m", "y", "s", "-", "n", "o", "v", "a", "-", "t", "e", "s", "t", "n", "e", "t">> >>,
   FlareCoston2 |-> << <<"f", "l", "a", "r", "e", "-", "c", "o", "s", "t", "o", "n", "2">> >>,
   Acala |-> << <<"a", "c", "a", "l", "a">> >>,
   AcalaMandalaTestnet |-> << <<"a", "c", "a", "l", "a", "-", "m", "a", "n", "d", "a", "l", "a", "-", "t", "e", "s", "t", "n", "e", "t">> >>,
   AcalaTestnet |-> << <<"a", "c", "a", "l", "a", "-", "t", "e", "s", "t", "n", "e", "t">> >>,
   Karura |-> << <<"k", "a", "r", "u", "r", "a">> >>,
   KaruraTestnet |-> << <<"k", "a", "r", "u", "r", "a", "-", "t", "e", "s", "t", "n", "e", "t">> >>,
   Pulsechain |-> << <<"p", "u", "l", "s", "e", "c", "h", "a", "i", "n">> >>,
   PulsechainTestnet |-> << <<"p", "u", "l", "s", "e", "c", "h", "a", "i", "n", "-", "t", "e", "s", "t", "n", "e", "t">> >>,
   Cannon |-> << <<"c", "a", "n", "n", "o", "n">> >>,
   Immutable |-> << <<"i", "m", "m", "u", "t", "a", "b", "l", "e">> >>,
   ImmutableTestnet |-> << <<"i", "m", "m", "u", "t", "a", "b", "l", "e", "-", "t", "e", "s", "t", "n", "e", "t">> >>,
   Soneium |-> << <<"s", "o", "n", "e", "i", "u", "m">> >>,
   SoneiumMinatoTestnet |-> << <<"s", "o", "n", "e", "i", "u", "m", "-", "m", "i", "n", "a", "t", "o", "-", "t", "e", "s", "t", "n", "e", "t">> >>,
   World |-> << <<"w", "o", "r", "l", "d", "c", "h", "a", "i", "n">> >>,
   WorldSepolia |-> << <<"w", "o", "r", "l", "d", "c", "h", "a", "i", "n", "-", "s", "e", "p", "o", "l", "i", "a">>, <<"w", "o", "r", "l", "d", "-", "s", "e", "p", "o", "l", "i", "a">> >>,
   SeiTestnet |-> << <<"s", "e", "i", "-", "t", "e", "s", "t", "n", "e", "t">> >>,
   StableMainnet |-> << <<"s", "t", "a", "b", "l", "e", "-", "m", "a", "i", "n", "n", "e", "t">> >>,
   StableTestnet |-> << <<"s", "t", "a", "b", "l", "e", "-", "t", "e", "s", "t", "n", "e", "t">> >>,
   UnichainSepolia |-> << <<"u", "n", "i", "c", "h", "a", "i", "n", "-", "s", "e", "p", "o", "l", "i", "a">> >>,
   SignetPecorino |-> << <<"s", "i", "g", "n", "e", "t", "-", "p", "e", "c", "o", "r", "i", "n", "o">> >>,
   ApeChain |-> << <<"a", "p", "e", "c", "h", "a", "i", "n">> >>,
   Curtis |-> << <<"a", "p", "e", "c", "h", "a", "i", "n", "-", "t", "e", "s", "t", "n", "e", "t">>, <<"c", "u", "r", "t", "i", "s">> >>,
   Sonic |-> << <<"s", "o", "n", "i", "c">> >>,
   SonicTestnet |-> << <<"s", "o", "n", "i", "c", "-", "t", "e", "s", "t", "n", "e", "t">> >>,
   Treasure |-> << <<"t", "r", "e", "a", "s", "u", "r", "e">> >>,
   TreasureTopaz |-> << <<"t", "r", "e", "a", "s", "u", "r", "e", "-", "t", "o", "p", "a", "z", "-", "t", "e", "s", "t", "n", "e", "t">>, <<"t", "r", "e", "a", "s", "u", "r", "e", "-", "t", "o", "p", "a", "z">> >>,
   BerachainBepolia |-> << <<"b", "e", "r", "a", "c", "h", "a", "i", "n", "-", "b", "e", "p", "o", "l", "i", "a", "-", "t", "e", "s", "t", "n", "e", "t">>, <<"b", "e", "r", "a", "c", "h", "a", "i", "n", "-", "b", "e", "p", "o", "l", "i", "a">> >>,
   SuperpositionTestnet |-> << <<"s", "u", "p", "e", "r", "p", "o", "s", "i", "t", "i", "o", "n", "-", "t", "e", "s", "t", "n", "e", "t">> >>,
   Superposition |-> << <<"s", "u", "p", "e", "r", "p", "o", "s", "i", "t", "i", "o", "n">> >>,
   Monad |-> << <<"m", "o", "n", "a", "d">> >>,
   MonadTestnet |-> << <<"m", "o", "n", "a", "d", "-", "t", "e", "s", "t", "n", "e", "t">> >>,
   Hyperliquid |-> << <<"h", "y", "p", "e", "r", "l", "i", "q", "u", "i", "d">> >>,
   Abstract |-> << <<"a", "b", "s", "t", "r", "a", "c", "t">> >>,
   AbstractTestnet |-> << <<"a", "b", "s", "t", "r", "a", "c", "t", "-", "t", "e", "s", "t", "n", "e", "t">> >>,
   Corn |-> << <<"c", "o", "r", "n">> >>,
   CornTestnet |-> << <<"c", "o", "r", "n", "-", "t", "e", "s", "t", "n", "e", "t">> >>,
   Sophon |-> << <<"s", "o", "p", "h", "o", "n">> >>,
   SophonTestnet |-> << <<"s", "o", "p", "h", "o", "n", "-", "t", "e", "s", "t", "n", "e", "t">> >>,
   PolkadotTestnet |-> << <<"p", "o", "l", "k", "a", "d", "o", "t", "-", "t", "e", "s", "t", "n", "e", "t">> >>,
   Lens |-> << <<"l", "e", "n", "s">> >>,
   LensTestnet |-> << <<"l", "e", "n", "s", "-", "t", "e", "s", "t", "n", "e", "t">> >>,
   Injective |-> << <<"i", "n", "j", "e", "c", "t", "i", "v", "e">> >>,
   InjectiveTestnet |-> << <<"i", "n", "j", "e", "c", "t", "i", "v", "e", "-", "t", "e", "s", "t", "n", "e", "t">> >>,
   Katana |-> << <<"k", "a", "t", "a", "n", "a">> >>,
   Lisk |-> << <<"l", "i", "s", "k">> >>,
   Fuse |-> << <<"f", "u", "s", "e">> >>,
   FluentDevnet |-> << <<"f", "l", "u", "e", "n", "t", "-", "d", "e", "v", "n", "e", "t">> >>,
   FluentTestnet |-> << <<"f", "l", "u", "e", "n", "t", "-", "t", "e", "s", "t", "n", "e", "t">> >>,
   SkaleBase |-> << <<"s", "k", "a", "l", "e", "-", "b", "a", "s", "e">> >>,
   SkaleBaseTestnet |-> << <<"s", "k", "a", "l", "e", "-", "b", "a", "s", "e", "-", "t", "e", "s", "t", "n", "e", "t">> >>,
   MemeCore |-> << <<"m", "e", "m", "e", "c", "o", "r", "e">> >>,
   Formicarium |-> << <<"f", "o", "r", "m", "i", "c", "a", "i", "r", "u", "m">>, <<"m", "e", "m", "e", "c", "o", "r", "e", "-", "f", "o", "r", "m", "i", "c", "a", "r", "i", "u", "m">> >>,
   Insectarium |-> << <<"i", "n", "s", "e", "c", "t", "a", "r", "i", "u", "m">>, <<"m", "e", "m", "e", "c", "o", "r", "e", "-", "i", "n", "s", "e", "c", "t", "a", "r", "i", "u", "m">> >>]

\* serde's RenameRule::SnakeCase applied to a variant identifier: "_" before
\* every uppercase character but the first, and each character lowercased.
RECURSIVE RenameRule_SnakeCase(_, _)
RenameRule_SnakeCase(ident, i) ==
  IF i > Len(ident) THEN <<>>
  ELSE (IF i > 1 /\ is_uppercase(ident[i]) THEN <<"_">> ELSE <<>>)
         \o <<to_lowercase_char(ident[i])>> \o RenameRule_SnakeCase(ident, i + 1)

\* Mutant of serde_names: the aliases are not accepted.
serde_names_without_aliases(v) ==
  {IF v \in DOMAIN SerdeRename THEN SerdeRename[v]
   ELSE RenameRule_SnakeCase(VariantIdent[v], 1)}

\* Mutant of serde_names: rename_all is "kebab-case", the style of Serialize.
serde_names_kebab_case(v) ==
  {IF v \in DOMAIN SerdeRename THEN SerdeRename[v] ELSE to_kebab_case(VariantIdent[v])}
    \cup (IF v \in DOMAIN SerdeAlias THEN Range(SerdeAlias[v]) ELSE {})

\* The names derive(serde::Deserialize) accepts for a variant: the rename, or
\* the identifier under rename_all = "snake_case", and the aliases.
serde_names(v) ==
  {IF v \in DOMAIN SerdeRename THEN SerdeRename[v]
   ELSE RenameRule_SnakeCase(VariantIdent[v], 1)}
    \cup (IF v \in DOMAIN SerdeAlias THEN Range(SerdeAlias[v]) ELSE {})

SerdeNames == VariantTable(serde_names, 1, Len(VARIANTS))

\* The generated variant visitor: a match of the string against the names of
\* each variant in turn; unknown_variant otherwise.
DeserializeArms ==
  LET keys(v) == SerdeNames[v] IN MatchArms(keys, 1, Len(VARIANTS))

NamedChain_deserialize(s) ==
  IF s \in DOMAIN DeserializeArms THEN Ok(DeserializeArms[s]) ELSE Err("unknown_variant")

\* impl serde::Serialize for NamedChain: s.serialize_str(self.as_ref()).
NamedChain_serialize(v) == Ok(NamedChain_as_ref(v))

\* str::replace(from, to) for single characters.
replace(s, from, to) == [i \in DOMAIN s |-> IF s[i] = from THEN to ELSE s[i]]

----------------------------------------------------------------------------
(* Chain and ChainKind *)

\* ChainKind::Named(named) and ChainKind::Id(id); Chain wraps a ChainKind.
Named(named) == <<"Named", named>>
Id(id) == <<"Id", id>>

Chain_from_named(named) == Named(named)

Chain_from_id_unchecked(id) == Id(id)

\* Mutant of Chain_from_id: the number is wrapped without the lookup.
Chain_from_id_unpromoted(id) == Chain_from_id_unchecked(id)

Chain_from_id(id) ==
  LET named == NamedChain_try_from_u64(id)
  IN  IF is_ok(named) THEN Chain_from_named(unwrap(named))
      ELSE Chain_from_id_unchecked(id)

Chain_default == Chain_from_named("Mainnet")

Chain_kind(c) == c

\* Mutant of Chain_named: an Id-kind chain is looked up again.
Chain_named_rechecked(c) ==
  IF Chain_kind(c)[1] = "Named" THEN Some(Chain_kind(c)[2])
  ELSE LET named == NamedChain_try_from_u64(Chain_kind(c)[2])
       IN  IF is_ok(named) THEN Some(unwrap(named)) ELSE None

Chain_named(c) ==
  IF Chain_kind(c)[1] = "Named" THEN Some(Chain_kind(c)[2]) ELSE None

\* Mutant of Chain_id: the ID goes through a 32-bit cast.
Chain_id_low32(c) ==
  LET id == IF Chain_kind(c)[1] = "Named" THEN Discriminant(Chain_kind(c)[2])
            ELSE Chain_kind(c)[2]
  IN  <<0, 0, id[3], id[4]>>

Chain_id(c) ==
  IF Chain_kind(c)[1] = "Named" THEN Discriminant(Chain_kind(c)[2]) ELSE Chain_kind(c)[2]

\* Mutant of Chain_eq: chains are compared by numeric ID.
Chain_eq_by_id(a, b) == Chain_id(a) = Chain_id(b)

\* derive(PartialEq) on Chain and ChainKind: same variant and equal payload.
Chain_eq(a, b) == Chain_kind(a)[1] = Chain_kind(b)[1] /\ Chain_kind(a)[2] = Chain_kind(b)[2]

\* derive(Hash) on Chain and ChainKind: what is fed to the hasher, the index of
\* the ChainKind variant and then the payload (for Named, the discriminant of
\* the NamedChain).
Chain_hash(c) ==
  IF Chain_kind(c)[1] = "Named" THEN <<0, Discriminant(Chain_kind(c)[2])>>
  ELSE <<1, Chain_kind(c)[2]>>

\* impl TryFrom<Chain> for NamedChain.
NamedChain_try_from_chain(c) ==
  IF Chain_kind(c)[1] = "Named" THEN Ok(Chain_kind(c)[2])
  ELSE NamedChain_try_from_u64(Chain_kind(c)[2])

\* Mutant of Chain_from_str: the parsed number is wrapped without the lookup.
Chain_from_str_unpromoted(s) ==
  LET named == NamedChain_from_str(s)
  IN  IF is_ok(named) THEN Ok(Chain_from_named(unwrap(named)))
      ELSE LET n == u64_from_str(s)
           IN  IF is_ok(n) THEN Ok(Chain_from_id_unchecked(unwrap(n))) ELSE n

\* impl FromStr for Chain.
Chain_from_str(s) ==
  LET named == NamedChain_from_str(s)
  IN  IF is_ok(named) THEN Ok(Chain_from_named(unwrap(named)))
      ELSE LET n == u64_from_str(s)
           IN  IF is_ok(n) THEN Ok(Chain_from_id(unwrap(n))) ELSE n

\* Mutant of Chain_fmt: a Named chain displays the identifier of its variant.
Chain_fmt_by_ident(c) ==
  IF Chain_kind(c)[1] = "Named" THEN VariantIdent[Chain_kind(c)[2]]
  ELSE u64_fmt(Chain_kind(c)[2])

\* Mutant of Chain_fmt: the name is looked up by ID for either kind.
Chain_fmt_rechecked(c) ==
  LET named == NamedChain_try_from_chain(c)
  IN  IF is_ok(named) THEN NamedChain_fmt(unwrap(named)) ELSE u64_fmt(Chain_kind(c)[2])

\* impl Display for Chain.
Chain_fmt(c) ==
  IF Chain_kind(c)[1] = "Named" THEN NamedChain_fmt(Chain_kind(c)[2])
  ELSE u64_fmt(Chain_kind(c)[2])

\* Chain::is_optimism: matches! on the kind.
Chain_is_optimism(c) ==
  /\ Chain_kind(c)[1] = "Named"
  /\ Chain_kind(c)[2] \in {"Optimism", "OptimismGoerli", "OptimismKovan", "OptimismSepolia",
                           "Base", "BaseGoerli"}

\* Chain::public_dns_network_protocol: self.try_into().ok()?, then the
\* allow-list and format!.
Chain_public_dns_network_protocol(c) ==
  LET named == NamedChain_try_from_chain(c)
  IN  IF is_err(named) THEN None
      ELSE IF unwrap(named) \in {"Mainnet", "Goerli", "Sepolia", "Ropsten", "Rinkeby"}
      THEN Some(DNS_PREFIX \o <<"a", "l", "l", ".">> \o to_lowercase(NamedChain_as_ref(unwrap(named)))
                  \o <<".", "e", "t", "h", "d", "i", "s", "c", "o", ".", "n", "e", "t">>)
      ELSE None

----------------------------------------------------------------------------
(* ChainRegistry and the records it holds *)

\* Mutant of Sepolia_new: the record carries the ID of Mainnet.
Sepolia_new_with_mainnet_id ==
  [id |-> U(1), name |-> <<"S", "e", "p", "o", "l", "i", "a">>]

\* Mainnet::new and Sepolia::new.
Mainnet_new == [id |-> U(1), name |-> <<"M", "a", "i", "n", "n", "e", "t">>]
Sepolia_new == [id |-> U(11155111), name |-> <<"S", "e", "p", "o", "l", "i", "a">>]

\* chain_id() of a record.
chain_id(c) == c.id

\* BTreeMap<u64, Box<dyn Chain>>: a function from the keys it holds.
BTreeMap_new == [k \in {} |-> Mainnet_new]
BTreeMap_insert(map, k, val) == (k :> val) @@ map
BTreeMap_get(map, k) == IF k \in DOMAIN map THEN Some(map[k]) ELSE None
BTreeMap_remove(map, k) == [x \in DOMAIN map \ {k} |-> map[x]]

\* ChainRegistry::new, and Default.
ChainRegistry_new ==
  LET mainnet == Mainnet_new
      sepolia == Sepolia_new
  IN  BTreeMap_insert(BTreeMap_insert(BTreeMap_new, chain_id(mainnet), mainnet),
                      chain_id(sepolia), sepolia)

ChainRegistry_get(chains, id) == BTreeMap_get(chains, id)

\* Mutant of ChainRegistry_add_chain: a record already stored under the ID is
\* kept.
ChainRegistry_add_chain_keep_existing(chains, c) ==
  IF chain_id(c) \in DOMAIN chains THEN chains ELSE BTreeMap_insert(chains, chain_id(c), c)

\* Mutant of ChainRegistry_add_chain: the key is the number of entries.
ChainRegistry_add_chain_by_count(chains, c) ==
  BTreeMap_insert(chains, U(Cardinality(DOMAIN chains)), c)

ChainRegistry_add_chain(chains, c) == BTreeMap_insert(chains, chain_id(c), c)

\* Mutant of ChainRegistry_remove_chain: the record is returned and stays.
ChainRegistry_remove_chain_peek(chains, id) ==
  [chains |-> chains, removed |-> BTreeMap_get(chains, id)]

\* ChainRegistry::remove_chain: the map without the key, and the record removed.
ChainRegistry_remove_chain(chains, id) ==
  [chains |-> BTreeMap_remove(chains, id), removed |-> BTreeMap_get(chains, id)]

----------------------------------------------------------------------------
(* The inputs of the operations *)

MaxSmallId == 16
MaxTextLen == 2

\* Chain IDs: every discriminant, the small numbers, and numbers no variant
\* has, up to u64::MAX.
IdInputs ==
  {Discriminant(v) : v \in NamedChains}
    \cup {U(n) : n \in 0..MaxSmallId}
    \cup {U(1234), U(65536), U(2147483647), UBig(4, 294967296), UBig(999, 999999999),
          <<32768, 0, 0, 0>>, u64_MAX}

\* The characters the short texts are made of.
TextAlphabet == {"0", "1", "9", "+", "-", "a", "_"}

ShortTexts == UNION {[1..n -> TextAlphabet] : n \in 0..MaxTextLen}

DecimalText == [id \in IdInputs |-> u64_fmt(id)]

\* Texts: every string the enumeration declares, the kebab-case and the
\* verbatim identifier of every variant, the decimal text of every input ID
\* (also signed and zero-padded), decimal text around u64::MAX, unknown
\* words, and every short text over TextAlphabet.
TextInputs ==
  UNION {Serializations[v] : v \in NamedChains}
    \cup {to_kebab_case(VariantIdent[v]) : v \in NamedChains}
    \cup {VariantIdent[v] : v \in NamedChains}
    \cup {DecimalText[id] : id \in IdInputs}
    \cup {<<"+">> \o DecimalText[id] : id \in IdInputs}
    \cup {<<"0">> \o DecimalText[id] : id \in IdInputs}
    \cup {<<"-">> \o DecimalText[id] : id \in IdInputs}
    \cup {DecimalText[u64_MAX] \o <<"0">>,
          SubSeq(DecimalText[u64_MAX], 1, 19) \o <<"6">>,
          <<"9">> \o SubSeq(DecimalText[u64_MAX], 2, 20),
          <<"c", "h", "a", "i", "n">>,
          <<"b", "o", "g", "u", "s", "-", "c", "h", "a", "i", "n">>,
          <<"m", "a", "i", "n", "n", "e", "t", " ">>,
          <<"M", "A", "I", "N", "N", "E", "T">>,
          <<"1", "2", "3", "4", "a">>,
          <<"9">> \o DecimalText[u64_MAX] \o <<"a">>,
          <<"1", " ">>}
    \cup ShortTexts

\* The IDs a chain is compared against besides its own.
CompareIds == {U(1), U(5), U(1234)}

\* Texts given to the deserializer: every name it accepts, every serialized
\* string, also with "_" for "-", every string strum accepts, the verbatim
\* identifiers, and unknown words.
SerdeInputs ==
  UNION {SerdeNames[v] : v \in NamedChains}
    \cup {unwrap(NamedChain_serialize(v)) : v \in NamedChains}
    \cup {replace(unwrap(NamedChain_serialize(v)), "-", "_") : v \in NamedChains}
    \cup UNION {Serializations[v] : v \in NamedChains}
    \cup {VariantIdent[v] : v \in NamedChains}
    \cup {<<>>, <<"c", "h", "a", "i", "n">>, <<"1">>, <<"M", "A", "I", "N", "N", "E", "T">>}

\* The IDs the registry is asked for, and the records added to it: the two
\* seeded records again, and records of other implementors of the trait
\* under the seeded IDs and under other IDs.
RegistryIds == {U(1), U(5), U(1337), U(11155111)}

RegistryRecords ==
  {Mainnet_new, Sepolia_new,
   [id |-> U(1), name |-> <<"f", "o", "r", "k">>],
   [id |-> U(11155111), name |-> <<"f", "o", "r", "k">>],
   [id |-> U(5), name |-> <<"G", "o", "e", "r", "l", "i">>],
   [id |-> U(5), name |-> <<"f", "o", "r", "k">>],
   [id |-> U(1337), name |-> <<"D", "e", "v">>]}

\* The native integer types of impl_try_from_numeric!, as type, signedness
\* and width.
NativeTypes ==
  {<<"u8", FALSE, 8>>, <<"i8", TRUE, 8>>, <<"u16", FALSE, 16>>, <<"i16", TRUE, 16>>,
   <<"u32", FALSE, 32>>, <<"i32", TRUE, 32>>}
    \cup {<<"usize", FALSE, w>> : w \in PointerWidths}
    \cup {<<"isize", TRUE, w>> : w \in PointerWidths}

\* Whether a bit pattern is one of the given width.
fits_width(bits, width) ==
  CASE width = 8 -> bits[1] = 0 /\ bits[2] = 0 /\ bits[3] = 0 /\ bits[4] < 256
    [] width = 16 -> bits[1] = 0 /\ bits[2] = 0 /\ bits[3] = 0
    [] width = 32 -> bits[1] = 0 /\ bits[2] = 0
    [] width = 64 -> TRUE

\* Bit patterns: those of the input IDs, and the greatest positive, the
\* least negative and the all-ones pattern of each width.
NativeBits ==
  IdInputs
    \cup {U(127), U(128), U(255), U(32767), U(32768), U(65535),
          <<0, 0, 32767, 65535>>, <<0, 0, 32768, 0>>, <<0, 0, 32768, 1>>, <<0, 0, 65535, 65535>>,
          <<32767, 65535, 65535, 65535>>, <<32768, 0, 0, 1>>}

NativeInputs ==
  {x \in {Native(t[1], t[2], t[3], bits) : t \in NativeTypes, bits \in NativeBits} :
     fits_width(x.bits, x.width)}

----------------------------------------------------------------------------
(* The state machine: a caller that builds or parses a chain and may compare *)
(* it with a second one, queries or (de)serializes a NamedChain, or works    *)
(* on a registry, and starts over.                                          *)

Init ==
  /\ pc = "start"
  /\ op = "default"
  /\ arg = <<>>
  /\ chain = Chain_default
  /\ parsed = None
  /\ other = None
  /\ returned = None
  /\ registry = BTreeMap_new

\* Chain::from_named(v), and From<NamedChain>.
FromNamed(v) ==
  /\ pc = "start"
  /\ chain' = Chain_from_named(v)
  /\ op' = "from_named"
  /\ arg' = v
  /\ pc' = "built"
  /\ UNCHANGED <<parsed, other, returned, registry>>

\* Chain::from_id(id), and From<u64>.
FromId(id) ==
  /\ pc = "start"
  /\ chain' = Chain_from_id(id)
  /\ op' = "from_id"
  /\ arg' = id
  /\ pc' = "built"
  /\ UNCHANGED <<parsed, other, returned, registry>>

\* Chain::from_id_unchecked(id), and the deprecated Chain::Id.
FromIdUnchecked(id) ==
  /\ pc = "start"
  /\ chain' = Chain_from_id_unchecked(id)
  /\ op' = "from_id_unchecked"
  /\ arg' = id
  /\ pc' = "built"
  /\ UNCHANGED <<parsed, other, returned, registry>>

\* s.parse::<Chain>(): the result is kept, and the chain on success.
FromStr(s) ==
  /\ pc = "start"
  /\ LET r == Chain_from_str(s)
     IN  /\ parsed' = Some(r)
         /\ chain' = IF is_ok(r) THEN unwrap(r) ELSE chain
  /\ op' = "from_str"
  /\ arg' = s
  /\ pc' = "parsed"
  /\ UNCHANGED <<other, returned, registry>>

\* The chains built from an ID by either numeric constructor, and from the
\* variants that have that ID.
ChainsOfId(id) ==
  {Chain_from_id(id), Chain_from_id_unchecked(id)}
    \cup {Chain_from_named(v) : v \in {w \in NamedChains : Discriminant(w) = id}}

\* A second chain c is built, to be compared with the first.
Compare(c) ==
  /\ pc = "built"
  /\ other' = Some(c)
  /\ pc' = "compared"
  /\ UNCHANGED <<op, arg, chain, parsed, returned, registry>>

\* The chain built is asked for its Optimism configuration and its DNS list.
ChainQuery ==
  /\ pc = "built"
  /\ returned' = [is_optimism |-> Chain_is_optimism(chain),
                  public_dns_network_protocol |-> Chain_public_dns_network_protocol(chain)]
  /\ pc' = "queried"
  /\ UNCHANGED <<op, arg, chain, parsed, other, registry>>

\* The metadata functions of NamedChain are called on v, one after another.
Describe(v) ==
  /\ pc = "start"
  /\ returned' = [is_ethereum |-> NamedChain_is_ethereum(v),
                  is_optimism |-> NamedChain_is_optimism(v),
                  is_gnosis |-> NamedChain_is_gnosis(v),
                  is_polygon |-> NamedChain_is_polygon(v),
                  is_arbitrum |-> NamedChain_is_arbitrum(v),
                  is_elastic |-> NamedChain_is_elastic(v),
                  average_blocktime_hint |-> NamedChain_average_blocktime_hint(v),
                  is_legacy |-> NamedChain_is_legacy(v),
                  supports_shanghai |-> NamedChain_supports_shanghai(v),
                  is_testnet |-> NamedChain_is_testnet(v),
                  native_currency_symbol |-> NamedChain_native_currency_symbol(v),
                  etherscan_urls |-> NamedChain_etherscan_urls(v),
                  etherscan_api_key_name |-> NamedChain_etherscan_api_key_name(v),
                  wrapped_native_token |-> NamedChain_wrapped_native_token(v),
                  public_dns_network_protocol |-> NamedChain_public_dns_network_protocol(v)]
  /\ op' = "metadata"
  /\ arg' = v
  /\ pc' = "described"
  /\ UNCHANGED <<chain, parsed, other, registry>>

\* A variant is added to the enumeration and the functions are left as they
\* are: for each function, whether its match has an arm for the variant,
\* that is, whether it still compiles.
AddVariant ==
  /\ pc = "start"
  /\ returned' = [is_ethereum |-> has_arm(is_ethereum_arms, NewVariant),
                  is_optimism |-> has_arm(is_optimism_arms, NewVariant),
                  is_gnosis |-> has_arm(is_gnosis_arms, NewVariant),
                  is_polygon |-> has_arm(is_polygon_arms, NewVariant),
                  is_arbitrum |-> has_arm(is_arbitrum_arms, NewVariant),
                  is_elastic |-> has_arm(is_elastic_arms, NewVariant),
                  average_blocktime_hint |-> has_arm(average_blocktime_hint_arms, NewVariant),
                  is_legacy |-> has_arm(is_legacy_arms, NewVariant),
                  supports_shanghai |-> has_arm(supports_shanghai_arms, NewVariant),
                  is_testnet |-> has_arm(is_testnet_arms, NewVariant),
                  native_currency_symbol |-> has_arm(native_currency_symbol_arms, NewVariant),
                  etherscan_urls |-> has_arm(etherscan_urls_arms, NewVariant),
                  etherscan_api_key_name |-> has_arm(etherscan_api_key_name_arms, NewVariant),
                  wrapped_native_token |-> has_arm(wrapped_native_token_arms, NewVariant)]
  /\ op' = "add_variant"
  /\ arg' = NewVariant
  /\ pc' = "extended"
  /\ UNCHANGED <<chain, parsed, other, registry>>

\* v is serialized: the serializer is handed one string.
Serialize(v) ==
  /\ pc = "start"
  /\ returned' = NamedChain_serialize(v)
  /\ op' = "serialize"
  /\ arg' = v
  /\ pc' = "serialized"
  /\ UNCHANGED <<chain, parsed, other, registry>>

\* A NamedChain is deserialized from the string s.
Deserialize(s) ==
  /\ pc = "start"
  /\ returned' = NamedChain_deserialize(s)
  /\ op' = "deserialize"
  /\ arg' = s
  /\ pc' = "deserialized"
  /\ UNCHANGED <<chain, parsed, other, registry>>

\* ChainRegistry::new(), and ChainRegistry::default().
RegistryNew ==
  /\ pc = "start"
  /\ registry' = ChainRegistry_new
  /\ op' = "new"
  /\ arg' = <<>>
  /\ returned' = None
  /\ pc' = "registry"
  /\ UNCHANGED <<chain, parsed, other>>

\* registry.add_chain(c).
AddChain(c) ==
  /\ pc = "registry"
  /\ registry' = ChainRegistry_add_chain(registry, c)
  /\ op' = "add_chain"
  /\ arg' = c
  /\ returned' = None
  /\ UNCHANGED <<pc, chain, parsed, other>>

\* registry.remove_chain(id): the record removed is returned.
RemoveChain(id) ==
  /\ pc = "registry"
  /\ LET r == ChainRegistry_remove_chain(registry, id)
     IN  /\ registry' = r.chains
         /\ returned' = r.removed
  /\ op' = "remove_chain"
  /\ arg' = id
  /\ UNCHANGED <<pc, chain, parsed, other>>

\* registry.get(id).
Get(id) ==
  /\ pc = "registry"
  /\ returned' = ChainRegistry_get(registry, id)
  /\ op' = "get"
  /\ arg' = id
  /\ UNCHANGED <<pc, chain, parsed, other, registry>>

\* NamedChain::try_from(x) for x of a native integer type.
TryFromNative(x) ==
  /\ pc = "start"
  /\ returned' = NamedChain_try_from_native(x)
  /\ op' = "try_from"
  /\ arg' = x
  /\ pc' = "converted"
  /\ UNCHANGED <<chain, parsed, other, registry>>

StartOver ==
  /\ pc # "start"
  /\ pc' = "start"
  /\ op' = "default"
  /\ arg' = <<>>
  /\ chain' = Chain_default
  /\ parsed' = None
  /\ other' = None
  /\ returned' = None
  /\ registry' = BTreeMap_new

Next ==
  \/ \E v \in NamedChains : FromNamed(v)
  \/ \E id \in IdInputs : FromId(id)
  \/ \E id \in IdInputs : FromIdUnchecked(id)
  \/ \E s \in TextInputs : FromStr(s)
  \/ \E c \in UNION {ChainsOfId(id) : id \in {Chain_id(chain)} \cup CompareIds} : Compare(c)
  \/ \E v \in NamedChains : Describe(v)
  \/ ChainQuery
  \/ AddVariant
  \/ \E v \in NamedChains : Serialize(v)
  \/ \E s \in SerdeInputs : Deserialize(s)
  \/ \E x \in NativeInputs : TryFromNative(x)
  \/ RegistryNew
  \/ \E c \in RegistryRecords : AddChain(c)
  \/ \E id \in RegistryIds : RemoveChain(id)
  \/ \E id \in RegistryIds : Get(id)
  \/ StartOver

Spec == Init /\ [][Next]_vars

----------------------------------------------------------------------------
(* Helpers of the properties *)

IsNamed(c) == Chain_kind(c)[1] = "Named"
IsId(c) == Chain_kind(c)[1] = "Id"

\* The variants whose discriminant is id.
VariantsOfId(id) == {v \in NamedChains : Discriminant(v) = id}

\* A chain as from_named, from_id and parsing produce it: not an Id-kind chain
\* whose number a variant has.
IsPromoted(c) == IsNamed(c) \/ VariantsOfId(Chain_id(c)) = {}

----------------------------------------------------------------------------
(* Properties *)

\* C1: promotion law. For every variant v, Chain::from_id(v as u64) equals
\* Chain::from_named(v) and its kind is Named(v); from_id never returns an
\* Id-kind chain whose number is the discriminant of a variant.
C1_PromotionLaw ==
  (pc = "built" /\ op = "from_id") =>
    /\ \A v \in NamedChains :
         Discriminant(v) = arg =>
           /\ Chain_eq(chain, Chain_from_named(v))
           /\ Chain_kind(chain) = Named(v)
    /\ IsId(chain) => VariantsOfId(Chain_kind(chain)[2]) = {}

C1_Witness ==
  /\ pc = "built"
  /\ op = "from_id"
  /\ arg = UBig(37, 714555429)
  /\ chain = Named("XaiSepolia")

\* C2 as stated: two chains are equal if and only if their numeric IDs are
\* equal, and chains with equal IDs hash identically.
C2_EqualIffSameId ==
  pc = "compared" =>
    /\ Chain_eq(chain, unwrap(other)) <=> (Chain_id(chain) = Chain_id(unwrap(other)))
    /\ Chain_id(chain) = Chain_id(unwrap(other)) =>
         Chain_hash(chain) = Chain_hash(unwrap(other))

\* C2 as amended: equality and hashing are structural (same kind, same
\* payload). Equal chains have equal IDs and feed the hasher the same data;
\* two promoted chains are equal if and only if their IDs are equal; a Named
\* chain and an Id-kind chain with the same ID are unequal and hash
\* differently.
C2_EqualityIsStructural ==
  pc = "compared" =>
    LET a == chain
        b == unwrap(other)
    IN  /\ Chain_eq(a, b) =>
             /\ Chain_id(a) = Chain_id(b)
             /\ Chain_hash(a) = Chain_hash(b)
        /\ (IsPromoted(a) /\ IsPromoted(b)) =>
             (Chain_eq(a, b) <=> Chain_id(a) = Chain_id(b))
        /\ (Chain_id(a) = Chain_id(b) /\ IsNamed(a) /\ IsId(b)) =>
             /\ ~Chain_eq(a, b)
             /\ ~Chain_eq(b, a)
             /\ Chain_hash(a) # Chain_hash(b)

C2_Witness ==
  /\ pc = "compared"
  /\ op = "from_named"
  /\ arg = "Mainnet"
  /\ other = Some(Chain_from_id_unchecked(U(1)))
  /\ ~Chain_eq(chain, unwrap(other))

\* C3 as stated: Chain::named returns Some(v) for Named(v), and for an Id-kind
\* chain Some(v) when the number is the discriminant of v, None only when no
\* variant has that discriminant.
C3_NamedRechecks ==
  pc = "built" =>
    /\ \A v \in NamedChains :
         Discriminant(v) = Chain_id(chain) => Chain_named(chain) = Some(v)
    /\ Chain_named(chain) = None => VariantsOfId(Chain_id(chain)) = {}

\* C3 as amended: Chain::named returns Some(v) for Named(v) and None for
\* every Id-kind chain, also when the number is the discriminant of a variant
\* (a chain built with from_id_unchecked); the conversion
\* NamedChain::try_from(chain) is the one that re-checks the number, giving
\* Ok(v) when v has it and an error only when no variant has it.
C3_NamedIsNoneForId ==
  pc = "built" =>
    /\ IsNamed(chain) => Chain_named(chain) = Some(Chain_kind(chain)[2])
    /\ IsId(chain) => Chain_named(chain) = None
    /\ \A v \in NamedChains :
         Discriminant(v) = Chain_id(chain) => NamedChain_try_from_chain(chain) = Ok(v)
    /\ is_err(NamedChain_try_from_chain(chain)) => VariantsOfId(Chain_id(chain)) = {}

C3_Witness ==
  /\ pc = "built"
  /\ op = "from_id_unchecked"
  /\ arg = U(1)
  /\ Chain_named(chain) = None
  /\ NamedChain_try_from_chain(chain) = Ok("Mainnet")

\* C4 as stated: the display text of every constructible chain is the
\* canonical name whenever a variant has the chain's ID, and the decimal
\* digits of the ID otherwise.
C4_DisplayByNamedMatch ==
  pc = "built" =>
    /\ \A v \in NamedChains :
         Discriminant(v) = Chain_id(chain) => Chain_fmt(chain) = NamedChain_as_str(v)
    /\ VariantsOfId(Chain_id(chain)) = {} => Chain_fmt(chain) = u64_fmt(Chain_id(chain))

\* C4 as amended: the display text follows the kind of the chain. A Named(v)
\* chain displays the canonical name of v, an Id-kind chain the decimal digits
\* of its number, also when a variant has that number (from_id_unchecked(1)
\* displays "1"). For a promoted chain this is the canonical name whenever a
\* variant has the ID and the digits otherwise: from_named(Mainnet) displays
\* "mainnet" and from_id(1234) displays "1234".
C4_DisplayByKind ==
  pc = "built" =>
    /\ IsNamed(chain) => Chain_fmt(chain) = NamedChain_as_str(Chain_kind(chain)[2])
    /\ IsId(chain) =>
         /\ Chain_fmt(chain) = u64_fmt(Chain_kind(chain)[2])
         /\ Range(Chain_fmt(chain)) \subseteq DigitSet
         /\ u64_from_str(Chain_fmt(chain)) = Ok(Chain_id(chain))
    /\ IsPromoted(chain) =>
         \A v \in NamedChains :
           Discriminant(v) = Chain_id(chain) => Chain_fmt(chain) = NamedChain_as_str(v)
    /\ (op = "from_named" /\ arg = "Mainnet") =>
         Chain_fmt(chain) = <<"m", "a", "i", "n", "n", "e", "t">>
    /\ (op = "from_id" /\ arg = U(1234)) => Chain_fmt(chain) = <<"1", "2", "3", "4">>
    /\ (op = "from_id_unchecked" /\ arg = U(1)) => Chain_fmt(chain) = <<"1">>

C4_Witness ==
  /\ pc = "built"
  /\ op = "from_id_unchecked"
  /\ arg = Discriminant("Sepolia")
  /\ Chain_fmt(chain) = <<"1", "1", "1", "5", "5", "1", "1", "1">>

\* C5: for every id, Chain::from_id(id).id() is id, and for every variant v,
\* Chain::from_named(v).id() is the discriminant of v; every numeric
\* constructor returns a chain (test_id: 1234; test_named_id: Goerli is 5).
C5_IdRoundTrip ==
  pc = "built" =>
    /\ op = "from_id" => Chain_id(chain) = arg
    /\ op = "from_id_unchecked" => Chain_id(chain) = arg
    /\ op = "from_named" => Chain_id(chain) = Discriminant(arg)
    /\ (op = "from_named" /\ arg = "Goerli") => Chain_id(chain) = U(5)
    /\ IsNamed(chain) \/ IsId(chain)

C5_Witness ==
  /\ pc = "built"
  /\ op = "from_id"
  /\ arg = u64_MAX
  /\ chain = Id(u64_MAX)
  /\ Chain_id(chain) = <<65535, 65535, 65535, 65535>>

----------------------------------------------------------------------------
(* Helpers of the parsing properties *)

\* The strings the strum attributes of v declare: to_string and serialize.
StrumStrings(v) ==
  (IF v \in DOMAIN StrumToString THEN {StrumToString[v]} ELSE {})
    \cup (IF v \in DOMAIN StrumSerialize THEN Range(StrumSerialize[v]) ELSE {})

\* The canonical names and declared aliases of all variants.
DeclaredNames == UNION {StrumStrings(v) \cup {NamedChain_as_str(v)} : v \in NamedChains}

u64_MAX_Text ==
  <<"1", "8", "4", "4", "6", "7", "4", "4", "0", "7",
    "3", "7", "0", "9", "5", "5", "1", "6", "1", "5">>

StripPlus(s) == IF Len(s) > 0 /\ s[1] = "+" THEN Tail(s) ELSE s

RECURSIVE StripZeros(_)
StripZeros(s) == IF Len(s) > 1 /\ s[1] = "0" THEN StripZeros(Tail(s)) ELSE s

\* a <= b for two texts of decimal digits of one length.
DigitsLeq(a, b) ==
  \/ a = b
  \/ \E i \in DOMAIN a :
       /\ \A j \in 1..(i - 1) : a[j] = b[j]
       /\ IndexOf(DigitChars, a[i]) < IndexOf(DigitChars, b[i])

\* Decimal digits after an optional "+".
IsDecimal(s) == Len(StripPlus(s)) > 0 /\ Range(StripPlus(s)) \subseteq DigitSet

\* The value of the decimal text s is at most u64::MAX.
FitsU64(s) ==
  LET z == StripZeros(StripPlus(s))
  IN  Len(z) < Len(u64_MAX_Text) \/ (Len(z) = Len(u64_MAX_Text) /\ DigitsLeq(z, u64_MAX_Text))

\* A valid base-10 unsigned 64-bit integer.
IsDecimalU64(s) == IsDecimal(s) /\ FitsU64(s)

----------------------------------------------------------------------------
(* Properties of parsing *)

\* C6 as stated: parsing fails exactly for text that is neither a canonical
\* name or declared alias nor a valid base-10 u64, and the error is
\* InvalidChainIdentifier.
C6_FailsWithInvalidChainIdentifier ==
  pc = "parsed" =>
    LET r == unwrap(parsed)
    IN  /\ is_err(r) <=> (arg \notin DeclaredNames /\ ~IsDecimalU64(arg))
        /\ is_err(r) => r = Err("InvalidChainIdentifier")

\* C6 as amended: parsing fails exactly for text that is neither a canonical
\* name or declared alias (matched case-sensitively: "Mainnet" fails) nor a
\* valid base-10 u64 (digits after an optional "+"), and the error is the
\* ParseIntError of the u64 parse: Empty for empty text, PosOverflow for
\* decimal text above u64::MAX, InvalidDigit or PosOverflow otherwise.
C6_ParseFailsExactly ==
  pc = "parsed" =>
    LET r == unwrap(parsed)
    IN  /\ is_err(r) <=> (arg \notin DeclaredNames /\ ~IsDecimalU64(arg))
        /\ is_err(r) => r[2] \in {"Empty", "InvalidDigit", "PosOverflow"}
        /\ is_err(r) => (r[2] = "Empty" <=> arg = <<>>)
        /\ (IsDecimal(arg) /\ ~FitsU64(arg)) => r = Err("PosOverflow")
        /\ (is_err(r) /\ r[2] = "PosOverflow") =>
             \E n \in 1..Len(arg) : IsDecimal(SubSeq(arg, 1, n)) /\ ~FitsU64(SubSeq(arg, 1, n))
        /\ arg = VariantIdent["Mainnet"] => r = Err("InvalidDigit")
        /\ arg = <<"c", "h", "a", "i", "n">> => is_err(r)

C6_Witness ==
  /\ pc = "parsed"
  /\ arg = <<"b", "o", "g", "u", "s", "-", "c", "h", "a", "i", "n">>
  /\ parsed = Some(Err("InvalidDigit"))

\* C7: canonical round trip. For every variant v the Display string,
\* to_string() and as_ref() are one string, and parsing it gives v with
\* NamedChain::from_str and Chain::from_named(v) with Chain::from_str.
C7_CanonicalRoundTrip ==
  /\ (pc = "built" /\ op = "from_named") =>
       LET s == NamedChain_fmt(arg)
       IN  /\ NamedChain_as_ref(arg) = s
           /\ NamedChain_as_str(arg) = s
           /\ Chain_fmt(chain) = s
           /\ NamedChain_from_str(s) = Ok(arg)
           /\ Chain_from_str(s) = Ok(Chain_from_named(arg))
  /\ pc = "parsed" =>
       \A v \in NamedChains :
         arg = NamedChain_fmt(v) => parsed = Some(Ok(Chain_from_named(v)))
  /\ (pc = "built" /\ op = "from_named" /\ arg = "FlareCoston2") =>
       NamedChain_fmt(arg) = <<"f", "l", "a", "r", "e", "-", "c", "o", "s", "t", "o", "n", "2">>

C7_Witness ==
  /\ pc = "parsed"
  /\ arg = <<"t", "e", "l", "o", "s">>
  /\ arg = NamedChain_fmt("TelosEvm")
  /\ parsed = Some(Ok(Named("TelosEvm")))

\* C8: for every variant v and every string the strum attributes of v
\* declare, parsing the string gives v, the chain from_id gives for the
\* discriminant of v: "ethlive" is Mainnet, "bnb-smart-chain" and
\* "binance-smart-chain" are BinanceSmartChain, "anvil" and "hardhat" are
\* AnvilHardhat.
C8_AliasesParse ==
  pc = "parsed" =>
    /\ \A v \in NamedChains :
         arg \in StrumStrings(v) =>
           /\ NamedChain_from_str(arg) = Ok(v)
           /\ parsed = Some(Ok(Chain_from_named(v)))
           /\ Chain_eq(chain, Chain_from_id(Discriminant(v)))
    /\ arg = <<"e", "t", "h", "l", "i", "v", "e">> =>
         /\ chain = Named("Mainnet")
         /\ Chain_eq(chain, Chain_from_id(U(1)))
    /\ arg \in {<<"a", "n", "v", "i", "l">>, <<"h", "a", "r", "d", "h", "a", "t">>} =>
         chain = Named("AnvilHardhat")
    /\ arg \in StrumStrings("BinanceSmartChain") => chain = Named("BinanceSmartChain")

C8_Witness ==
  /\ pc = "parsed"
  /\ arg = <<"e", "t", "h", "l", "i", "v", "e">>
  /\ arg \in StrumStrings("Mainnet")
  /\ parsed = Some(Ok(Chain_from_id(U(1))))

\* C9: text that matches no name is parsed as a base-10 u64 n and the result
\* is Chain::from_id(n): the decimal text of a discriminant gives the Named
\* chain ("1" is mainnet), of any other number Id(n), and decimal text above
\* u64::MAX is an error.
C9_NumericFallback ==
  (pc = "parsed" /\ arg \notin DeclaredNames) =>
    /\ \A id \in IdInputs :
         arg \in {DecimalText[id], <<"+">> \o DecimalText[id], <<"0">> \o DecimalText[id]} =>
           /\ parsed = Some(Ok(Chain_from_id(id)))
           /\ \A v \in NamedChains : Discriminant(v) = id => chain = Named(v)
           /\ VariantsOfId(id) = {} => chain = Id(id)
    /\ arg = <<"1">> => chain = Named("Mainnet")
    /\ arg = <<"1", "2", "3", "4">> => parsed = Some(Ok(Id(U(1234))))
    /\ (IsDecimal(arg) /\ ~FitsU64(arg)) => is_err(unwrap(parsed))
    /\ arg = SubSeq(u64_MAX_Text, 1, 19) \o <<"6">> => is_err(unwrap(parsed))

C9_Witness ==
  /\ pc = "parsed"
  /\ arg = <<"1", "1", "1", "5", "5", "1", "1", "1">>
  /\ parsed = Some(Ok(Named("Sepolia")))

\* C10: the discriminants are injective: no two distinct variants have the
\* same chain ID, so NamedChain::try_from(u64) has at most one possible
\* result for any number.
C10_DiscriminantsInjective ==
  /\ (pc = "built" /\ op = "from_named") =>
       /\ VariantsOfId(Discriminant(arg)) = {arg}
       /\ NamedChain_try_from_u64(Discriminant(arg)) = Ok(arg)
  /\ (pc = "built" /\ op = "from_id") =>
       /\ Cardinality(VariantsOfId(arg)) <= 1
       /\ \A v \in VariantsOfId(arg) : NamedChain_try_from_u64(arg) = Ok(v)

C10_Witness ==
  /\ pc = "built"
  /\ op = "from_named"
  /\ arg = "OptimismSepolia"
  /\ VariantsOfId(U(11155420)) = {"OptimismSepolia"}

\* C11: alias uniqueness. No string NamedChain::from_str accepts is declared
\* for two different variants, and no two variants have the same canonical
\* display string, so parsing a text gives at most one variant: the variant
\* that declares it, and VariantNotFound when none does.
C11_AliasUniqueness ==
  /\ (pc = "built" /\ op = "from_named") =>
       \A w \in NamedChains \ {arg} :
         /\ Serializations[w] \cap Serializations[arg] = {}
         /\ NamedChain_fmt(w) # NamedChain_fmt(arg)
  /\ pc = "parsed" =>
       LET accepting == {v \in NamedChains : arg \in Serializations[v]}
       IN  /\ Cardinality(accepting) <= 1
           /\ \A v \in accepting : NamedChain_from_str(arg) = Ok(v)
           /\ accepting = {} => is_err(NamedChain_from_str(arg))

C11_Witness ==
  /\ pc = "parsed"
  /\ arg = <<"a", "r", "b", "i", "t", "r", "u", "m">>
  /\ {v \in NamedChains : arg \in Serializations[v]} = {"Arbitrum"}
  /\ parsed = Some(Ok(Named("Arbitrum")))

\* C12: for an ID that no variant has, such as 999999999999,
\* Chain::from_id(id).named() is None and the display text is the decimal
\* digits of id: digits only, no leading zero, and they parse back to id.
C12_UnknownIdIsNumeric ==
  (pc = "built" /\ op = "from_id" /\ VariantsOfId(arg) = {}) =>
    /\ Chain_named(chain) = None
    /\ Chain_fmt(chain) = u64_fmt(arg)
    /\ Range(Chain_fmt(chain)) \subseteq DigitSet
    /\ (Len(Chain_fmt(chain)) > 1 => Chain_fmt(chain)[1] # "0")
    /\ u64_from_str(Chain_fmt(chain)) = Ok(arg)
    /\ arg = UBig(999, 999999999) =>
         Chain_fmt(chain) = <<"9", "9", "9", "9", "9", "9", "9", "9", "9", "9", "9", "9">>
    /\ arg = U(1234) => Chain_fmt(chain) = <<"1", "2", "3", "4">>

C12_Witness ==
  /\ pc = "built"
  /\ op = "from_id"
  /\ arg = UBig(999, 999999999)
  /\ chain = Id(arg)
  /\ Chain_named(chain) = None
  /\ Len(Chain_fmt(chain)) = 12

----------------------------------------------------------------------------
(* Helpers of the metadata and serde properties *)

IsOption(o) == o[1] \in {"None", "Some"}

ends_with(s, c) == Len(s) > 0 /\ s[Len(s)] = c

starts_with(s, prefix) == Len(s) >= Len(prefix) /\ SubSeq(s, 1, Len(prefix)) = prefix

\* The fields of a metadata record that hold an Option, and a bool.
OptionFields ==
  {"average_blocktime_hint", "native_currency_symbol", "etherscan_urls",
   "etherscan_api_key_name", "wrapped_native_token", "public_dns_network_protocol"}

BoolFields == {"is_legacy", "supports_shanghai", "is_testnet"}

\* C13: every metadata function is total over NamedChain: for every variant
\* each of the nine functions returns a value of its type, an Option (None,
\* or Some of a duration, a symbol, a pair of URLs, a name, an address, a
\* text) or a bool, and there is no variant its match has no arm for.
C13_MetadataTotal ==
  pc = "described" =>
    /\ \A f \in OptionFields : returned[f] # NoArm /\ IsOption(returned[f])
    /\ \A f \in BoolFields : returned[f] \in BOOLEAN
    /\ is_some(returned.average_blocktime_hint) =>
         unwrap(returned.average_blocktime_hint) \in Nat
    /\ is_some(returned.etherscan_urls) => Len(unwrap(returned.etherscan_urls)) = 2
    /\ is_some(returned.wrapped_native_token) =>
         unwrap(returned.wrapped_native_token) \in STRING

C13_Witness ==
  /\ pc = "described"
  /\ arg = "AnvilHardhat"
  /\ returned.etherscan_urls = None
  /\ returned.etherscan_api_key_name = None
  /\ returned.wrapped_native_token = None
  /\ returned.is_testnet = TRUE
  /\ returned.is_legacy = FALSE
  /\ returned.average_blocktime_hint = Some(200)

\* C14: when etherscan_urls returns Some((api_url, base_url)) for a variant,
\* neither URL ends with "/" (and neither is empty).
C14_NoTrailingSeparator ==
  (pc = "described" /\ is_some(returned.etherscan_urls)) =>
    LET urls == unwrap(returned.etherscan_urls)
    IN  /\ Len(urls[1]) > 0 /\ ~ends_with(urls[1], "/")
        /\ Len(urls[2]) > 0 /\ ~ends_with(urls[2], "/")

C14_Witness ==
  /\ pc = "described"
  /\ arg = "Mainnet"
  /\ returned.etherscan_urls =
       Some(<<<<"h", "t", "t", "p", "s", ":", "/", "/", "a", "p", "i", ".", "e", "t", "h", "e", "r", "s", "c", "a", "n", ".", "i", "o", "/", "v", "2", "/", "a", "p", "i", "?", "c", "h", "a", "i", "n", "i", "d", "=", "1">>,
              <<"h", "t", "t", "p", "s", ":", "/", "/", "e", "t", "h", "e", "r", "s", "c", "a", "n", ".", "i", "o">>>>)

\* C15: NamedChain::public_dns_network_protocol returns, for Mainnet, Goerli,
\* Sepolia, Ropsten, Rinkeby, Holesky and Hoodi (Ethereum mainnet and
\* testnets), the prefix constant followed by "all.", the lowercase canonical
\* name and ".ethdisco.net", and None for every other variant.
C15_DnsNetworkProtocol ==
  pc = "described" =>
    LET dns == returned.public_dns_network_protocol
        expected == DNS_PREFIX \o <<"a", "l", "l", ".">> \o to_lowercase(NamedChain_as_str(arg))
                      \o <<".", "e", "t", "h", "d", "i", "s", "c", "o", ".", "n", "e", "t">>
    IN  /\ is_some(dns) <=>
             arg \in {"Mainnet", "Goerli", "Sepolia", "Ropsten", "Rinkeby", "Holesky", "Hoodi"}
        /\ is_some(dns) =>
             /\ dns = Some(expected)
             /\ arg = "Mainnet" \/ NamedChain_is_testnet(arg)
        /\ arg = "Mainnet" =>
             dns = Some(DNS_PREFIX \o <<"a", "l", "l", ".", "m", "a", "i", "n", "n", "e", "t", ".", "e", "t", "h", "d", "i", "s", "c", "o", ".", "n", "e", "t">>)

C15_Witness ==
  /\ pc = "described"
  /\ arg = "Holesky"
  /\ returned.public_dns_network_protocol =
       Some(DNS_PREFIX \o <<"a", "l", "l", ".", "h", "o", "l", "e", "s", "k", "y", ".", "e", "t", "h", "d", "i", "s", "c", "o", ".", "n", "e", "t">>)

\* The variants whose canonical name the deserializer does not accept.
NotDecodable ==
  {"ArbitrumTestnet", "CronosTestnet", "RskTestnet", "TelosEvmTestnet", "CfxTestnet",
   "FantomTestnet", "MoonbeamDev", "EvmosTestnet", "EmeraldTestnet", "FilecoinMainnet",
   "FilecoinCalibrationTestnet", "CeloSepolia", "AuroraTestnet", "CantoTestnet"}

\* C16 as claimed: for every variant, serialization emits the canonical
\* display string, deserializing that exact string gives the variant back,
\* and so does deserializing each alias declared for it.
C16_DecodeAcceptsEncoded ==
  /\ pc = "serialized" =>
       /\ returned = Ok(NamedChain_fmt(arg))
       /\ NamedChain_deserialize(unwrap(returned)) = Ok(arg)
  /\ pc = "deserialized" =>
       \A v \in NamedChains :
         (v \in DOMAIN SerdeAlias /\ arg \in Range(SerdeAlias[v])) => returned = Ok(v)

\* C16, amended: serialization emits the canonical display string; the
\* deserializer accepts exactly the snake_case name (or rename) and the serde
\* aliases of each variant, giving that variant; the canonical string is
\* accepted if and only if it has no "-" or is a serde alias of the variant,
\* and is rejected for the 14 variants of NotDecodable.
C16_DecodeOfEncoded ==
  /\ pc = "serialized" =>
       LET s == unwrap(returned)
       IN  /\ returned = Ok(NamedChain_fmt(arg))
           /\ NamedChain_deserialize(s) = Ok(arg) <=>
                ("-" \notin Range(s)
                   \/ (arg \in DOMAIN SerdeAlias /\ s \in Range(SerdeAlias[arg])))
           /\ NamedChain_deserialize(s) = Ok(arg) <=> arg \notin NotDecodable
           /\ arg \in NotDecodable => is_err(NamedChain_deserialize(s))
  /\ pc = "deserialized" =>
       /\ \A v \in NamedChains :
            returned = Ok(v) <=>
              \/ arg = (IF v \in DOMAIN SerdeRename THEN SerdeRename[v]
                        ELSE RenameRule_SnakeCase(VariantIdent[v], 1))
              \/ (v \in DOMAIN SerdeAlias /\ arg \in Range(SerdeAlias[v]))
       /\ is_err(returned) \/ unwrap(returned) \in NamedChains

C16_Witness ==
  /\ pc = "serialized"
  /\ arg = "ArbitrumTestnet"
  /\ returned = Ok(<<"a", "r", "b", "i", "t", "r", "u", "m", "-", "t", "e", "s", "t", "n", "e", "t">>)
  /\ NamedChain_deserialize(unwrap(returned)) = Err("unknown_variant")

\* C17: for every variant, the serialized string with every "-" replaced by
\* "_" deserializes to the variant, and the serialized string is the display
\* string.
C17_SnakeCaseRoundTrip ==
  /\ pc = "serialized" =>
       /\ returned = Ok(NamedChain_fmt(arg))
       /\ NamedChain_deserialize(replace(unwrap(returned), "-", "_")) = Ok(arg)
  /\ pc = "deserialized" =>
       \A v \in NamedChains :
         arg = replace(unwrap(NamedChain_serialize(v)), "-", "_") => returned = Ok(v)

C17_Witness ==
  /\ pc = "deserialized"
  /\ arg = <<"b", "s", "c", "_", "t", "e", "s", "t", "n", "e", "t">>
  /\ arg = replace(unwrap(NamedChain_serialize("BinanceSmartChainTestnet")), "-", "_")
  /\ returned = Ok("BinanceSmartChainTestnet")

\* C18 as claimed: for every variant whose API URL (the first element of
\* etherscan_urls) is hosted on api.etherscan.io, etherscan_api_key_name
\* returns Some("ETHERSCAN_API_KEY").
C18_EtherscanFamilyKey ==
  (pc = "described" /\ is_some(returned.etherscan_urls)) =>
    (starts_with(unwrap(returned.etherscan_urls)[1], <<"h", "t", "t", "p", "s", ":", "/", "/", "a", "p", "i", ".", "e", "t", "h", "e", "r", "s", "c", "a", "n", ".", "i", "o", "/">>)
       => returned.etherscan_api_key_name = Some(<<"E", "T", "H", "E", "R", "S", "C", "A", "N", "_", "A", "P", "I", "_", "K", "E", "Y">>))

\* C19: a newly constructed registry holds exactly the records of Mainnet
\* and Sepolia: get(1) and get(11155111) return records whose chain_id() is
\* 1 and 11155111, and get of any other ID returns None.
C19_RegistrySeeded ==
  (pc = "registry" /\ op = "new") =>
    /\ DOMAIN registry = {U(1), U(11155111)}
    /\ ChainRegistry_get(registry, U(1)) = Some(Mainnet_new)
    /\ ChainRegistry_get(registry, U(11155111)) = Some(Sepolia_new)
    /\ \A id \in IdInputs \cup RegistryIds :
         LET r == ChainRegistry_get(registry, id)
         IN  IF id \in {U(1), U(11155111)}
             THEN is_some(r) /\ chain_id(unwrap(r)) = id
             ELSE r = None

C19_Witness ==
  /\ pc = "registry"
  /\ op = "new"
  /\ ChainRegistry_get(registry, U(11155111)) = Some(Sepolia_new)
  /\ chain_id(registry[U(1)]) = U(1)
  /\ ChainRegistry_get(registry, U(5)) = None

\* C20: a step add_chain(c) leaves a registry in which get(c.chain_id())
\* returns c; when a record was stored under that ID, seeded ones included,
\* the number of entries is the same, and one more otherwise; the records
\* under every other ID are as before.
C20_AddChainFrame ==
  [][(pc = "registry" /\ pc' = "registry" /\ op' = "add_chain") =>
       LET c == arg'
       IN  /\ ChainRegistry_get(registry', chain_id(c)) = Some(c)
           /\ chain_id(c) \in DOMAIN registry =>
                Cardinality(DOMAIN registry') = Cardinality(DOMAIN registry)
           /\ chain_id(c) \notin DOMAIN registry =>
                Cardinality(DOMAIN registry') = Cardinality(DOMAIN registry) + 1
           /\ \A id \in (IdInputs \cup RegistryIds) \ {chain_id(c)} :
                ChainRegistry_get(registry', id) = ChainRegistry_get(registry, id)]_vars

C20_Witness ==
  /\ pc = "registry"
  /\ op = "add_chain"
  /\ arg = [id |-> U(1), name |-> <<"f", "o", "r", "k">>]
  /\ ChainRegistry_get(registry, U(1)) = Some(arg)
  /\ DOMAIN registry = {U(1), U(11155111)}
  /\ registry[U(11155111)] = Sepolia_new

\* C21: a step remove_chain(id) returns the record stored under id, or None
\* when there is none, and then the registry is as it was; afterwards
\* get(id) is None, records under every other ID are as before, and a
\* record appears under an ID that had none only by add_chain of a record
\* with that ID.
C21_RemoveChainFrame ==
  [][(pc = "registry" /\ pc' = "registry") =>
       /\ op' = "remove_chain" =>
            /\ returned' = ChainRegistry_get(registry, arg')
            /\ ChainRegistry_get(registry', arg') = None
            /\ ChainRegistry_get(registry, arg') = None =>
                 (returned' = None /\ registry' = registry)
            /\ is_some(returned') => DOMAIN registry' = DOMAIN registry \ {arg'}
            /\ \A id \in (IdInputs \cup RegistryIds) \ {arg'} :
                 ChainRegistry_get(registry', id) = ChainRegistry_get(registry, id)
       /\ \A id \in IdInputs \cup RegistryIds :
            (ChainRegistry_get(registry, id) = None
               /\ ChainRegistry_get(registry', id) # None)
              => (op' = "add_chain" /\ chain_id(arg') = id)]_vars

C21_Witness ==
  /\ pc = "registry"
  /\ op = "remove_chain"
  /\ arg = U(1)
  /\ returned = Some(Mainnet_new)
  /\ ChainRegistry_get(registry, U(1)) = None
  /\ ChainRegistry_get(registry, U(11155111)) = Some(Sepolia_new)

\* C22 as claimed: is_ethereum is true exactly for Mainnet and the variants
\* of the "Ethereum testnets" arm of is_testnet, its first arm.
C22_EthereumIsMainnetAndTestnets ==
  pc = "described" =>
    (returned.is_ethereum <=> (arg = "Mainnet" \/ arg \in is_testnet_arms[1].pat))

\* C23 as claimed: no classification function has an arm for a variant that
\* is added later, so each of them stops compiling until it is updated.
C23_NoWildcardFallback ==
  pc = "extended" =>
    \A f \in DOMAIN returned : ~returned[f]

\* The variants that are legacy and support Shanghai.
LegacyWithShanghai == {"Rsk", "RskTestnet", "Shimmer"}

\* C29 as claimed: no variant has is_legacy() and supports_shanghai() both
\* true.
C29_LegacyExcludesShanghai ==
  pc = "described" => ~(returned.is_legacy /\ returned.supports_shanghai)

\* C29, amended: the variants for which is_legacy() and supports_shanghai()
\* are both true are exactly Rsk, RskTestnet and Shimmer; for every other
\* variant at most one of the two is true.
C29_LegacyAndShanghai ==
  pc = "described" =>
    ((returned.is_legacy /\ returned.supports_shanghai) <=> arg \in LegacyWithShanghai)

C29_Witness ==
  /\ pc = "described"
  /\ arg = "Shimmer"
  /\ returned.is_legacy
  /\ returned.supports_shanghai

\* C24 as claimed: Chain::is_optimism agrees with NamedChain::is_optimism
\* for the chain of every variant, and is false for every Id-kind chain.
C24_IsOptimismAgrees ==
  pc = "queried" =>
    /\ op = "from_named" => returned.is_optimism = NamedChain_is_optimism(arg)
    /\ IsId(chain) => ~returned.is_optimism

\* C25 as claimed: Chain::public_dns_network_protocol of a chain, of either
\* kind and however built, is NamedChain::public_dns_network_protocol of the
\* variant that has the chain's ID, and None when no variant has it.
C25_DnsAgrees ==
  pc = "queried" =>
    /\ \A v \in VariantsOfId(Chain_id(chain)) :
         returned.public_dns_network_protocol = NamedChain_public_dns_network_protocol(v)
    /\ VariantsOfId(Chain_id(chain)) = {} => returned.public_dns_network_protocol = None

\* C26: for every ID, parsing the display text of Chain::from_id(id) gives
\* Ok(Chain::from_id(id)); no canonical name or alias is a base-10 integer,
\* and decimal text parses to the chain of its number.
C26_PromotedRoundTrip ==
  /\ (pc = "built" /\ op = "from_id") =>
       /\ Chain_from_str(Chain_fmt(chain)) = Ok(chain)
       /\ Chain_from_str(Chain_fmt(Chain_from_id(arg))) = Ok(Chain_from_id(arg))
  /\ (pc = "built" /\ op = "from_named") =>
       \A s \in Serializations[arg] \cup {NamedChain_fmt(arg)} : ~IsDecimal(s)
  /\ (pc = "parsed" /\ IsDecimalU64(arg)) =>
       /\ arg \notin DeclaredNames
       /\ is_ok(unwrap(parsed))
       /\ unwrap(parsed) = Ok(Chain_from_id(Chain_id(chain)))
       /\ u64_from_str(arg) = Ok(Chain_id(chain))

C26_Witness ==
  /\ pc = "built"
  /\ op = "from_id"
  /\ arg = U(10)
  /\ chain = Named("Optimism")
  /\ Chain_fmt(chain) = <<"o", "p", "t", "i", "m", "i", "s", "m">>
  /\ Chain_from_str(Chain_fmt(chain)) = Ok(Named("Optimism"))

\* C27: in a registry made by new() and changed by add_chain and
\* remove_chain, every record stored under a key k has chain_id() = k, and
\* at most one record is stored for a chain ID.
C27_RegistryKeyInvariant ==
  pc = "registry" =>
    /\ \A k \in DOMAIN registry : chain_id(registry[k]) = k
    /\ \A id \in IdInputs \cup RegistryIds :
         Cardinality({k \in DOMAIN registry : chain_id(registry[k]) = id}) <= 1

C27_Witness ==
  /\ pc = "registry"
  /\ op = "remove_chain"
  /\ DOMAIN registry = {U(5), U(1337)}
  /\ registry[U(5)] = [id |-> U(5), name |-> <<"f", "o", "r", "k">>]
  /\ chain_id(registry[U(1337)]) = U(1337)

\* The start of an Etherscan API URL, up to the chain ID.
EtherscanApi ==
  <<"h", "t", "t", "p", "s", ":", "/", "/", "a", "p", "i", ".", "e", "t", "h", "e", "r", "s", "c", "a", "n", ".", "i", "o", "/", "v", "2", "/", "a", "p", "i", "?", "c", "h", "a", "i", "n", "i", "d", "=">>

\* C28: for every variant whose API URL has the form
\* "https://api.etherscan.io/v2/api?chainid=N", N is the decimal text of the
\* chain ID of the variant.
C28_ChainIdInApiUrl ==
  (pc = "described" /\ is_some(returned.etherscan_urls)) =>
    LET api == unwrap(returned.etherscan_urls)[1]
    IN  starts_with(api, EtherscanApi) =>
          /\ SubSeq(api, Len(EtherscanApi) + 1, Len(api)) = u64_fmt(Discriminant(arg))
          /\ u64_from_str(SubSeq(api, Len(EtherscanApi) + 1, Len(api))) = Ok(Discriminant(arg))

C28_Witness ==
  /\ pc = "described"
  /\ arg = "XaiSepolia"
  /\ unwrap(returned.etherscan_urls)[1] = EtherscanApi \o <<"3", "7", "7", "1", "4", "5", "5", "5", "4", "2", "9">>
  /\ Discriminant(arg) = UBig(37, 714555429)

\* Whether a value of a native integer type is negative.
IsNegative(x) == x.signed /\ sign_bit(x)

\* C30: for x of type u8, i8, u16, i16, u32, i32, usize or isize,
\* NamedChain::try_from(x) is Ok(v) if and only if x is not negative and
\* equals the discriminant of v; a negative x is cast to a u64 of at least
\* 2^63 and converts to no variant.
C30_NativeTryFrom ==
  pc = "converted" =>
    /\ \A v \in NamedChains :
         (returned = Ok(v)) <=> (~IsNegative(arg) /\ arg.bits = Discriminant(v))
    /\ is_err(returned) <=> (IsNegative(arg) \/ VariantsOfId(arg.bits) = {})
    /\ IsNegative(arg) => (as_u64(arg)[1] >= 32768 /\ is_err(returned))

C30_Witness ==
  /\ pc = "converted"
  /\ arg = Native("i8", TRUE, 8, U(137))
  /\ IsNegative(arg)
  /\ Discriminant("Polygon") = arg.bits
  /\ as_u64(arg) = <<65535, 65535, 65535, 65417>>
  /\ is_err(returned)

C30_WitnessOk ==
  /\ pc = "converted"
  /\ arg = Native("isize", TRUE, 64, UBig(37, 714555429))
  /\ returned = Ok("XaiSepolia")

====
